---------------------------- MODULE Spec2Model ----------------------------
(***************************************************************************)
(* Model of the fund forecast services of YouDaRealMVP:                    *)
(*   - FundForecastService (src/src/services/excel-export-service.ts,      *)
(*     second half): calculateWaterfall, generatePortfolio, validateInputs,*)
(*     runForecast, calculateTimeline;                                     *)
(*   - ExcelExportService (same file, first half): the sheets exported;    *)
(*   - EnhancedFundModel (src/unnamed/part_002): runForecast;              *)
(*   - AppProvider (src/src/contexts/AppContext.tsx): the reducer,         *)
(*     saveFund, loadFund, calculateForecast, runScenarios, the effects;   *)
(*   - FundSetup (src/unnamed/part_000): validateForm, handleSave;         *)
(*   - AllocationInput (src/unnamed/part_001): handleChange.               *)
(*                                                                         *)
(* Numbers.  JavaScript numbers are modelled as exact rationals in fixed   *)
(* point: a rate r is the integer r * RateDen, a company count c is the    *)
(* integer c * CountDen, an allocation a is the integer a * AllocDen.      *)
(* Money is an integer; the inputs are multiples of MoneyUnit so that every*)
(* product with a rate is again an integer.  Rounding of IEEE doubles is   *)
(* not modelled.                                                           *)
(***************************************************************************)
EXTENDS Integers, Sequences, FiniteSets, TLC

\* ------------------------------------------------------------------------
\* Scales and bounds
\* ------------------------------------------------------------------------

\* denominator of every rate (carry, hurdle, GP commitment, ownership, fee)
RateDen == 50

\* effective years of preferred return = fundLifeYears * 0.7
PrefYearsNum == 7

PrefYearsDen == 10

\* one unit of money: products with two rates and the 0.7 factor stay whole
MoneyUnit == RateDen * RateDen * PrefYearsDen

\* largest totalDistributions / totalInvested tried, in MoneyUnit
MaxDistributions == 6

MaxInvested == 3

\* largest fundLifeYears tried by the waterfall
MaxLifeYears == 3

\* rates tried (numerators over RateDen), all in [0,1)
GpCommitments == {0, 1, 25}

HurdleRates == {0, 4, 25}

CarryRates == {0, 10, 25}

\* denominator of a company count (targetCompanies may be fractional)
CountDen == 4

\* largest targetCompanies tried, in 1/CountDen
MaxTargetCompanies == 6

\* denominator of an allocationPercent
AllocDen == 2000

\* Math.abs(totalAllocation - 1) > 0.001: the tolerance is 1 / AllocTolDen
AllocTolDen == 1000

\* denominator of an exit probability
ProbDen == 100

\* longest stageStrategies list tried
MaxStrategies == 2

\* denominator of a percentage shown by AllocationInput: a Percent of p% is
\* the integer p * PctDen
PctDen == 2

\* the wall clock (new Date()) runs 0..MaxClock
MaxClock == 2

\* most calculateForecast calls in flight at once
MaxPending == 2

\* an optional value: None or Some(x)
None == <<>>

Some(x) == <<x>>

IsSome(o) == Len(o) = 1

Val(o) == o[1]

\* Math.min
Min(a, b) == IF a <= b THEN a ELSE b

\* a quotient kept exact
Ratio(n, d) == [num |-> n, den |-> d]

VARIABLES
    callInputs,     \* the EnhancedFundInputs the calls below are made with
    now,            \* the wall clock read by new Date()
    wfArgs,         \* totalDistributions and totalInvested of the waterfall call
    wfTiers,        \* Some(the locals of calculateWaterfall, tier by tier)
    waterfall,      \* Some(the WaterfallSummary it returned)
    portfolio,      \* Some(the result of the last generatePortfolio call)
    prevPortfolio,  \* Some(the result of the generatePortfolio call before it)
    cohortError,    \* Some(the error generatePortfolio threw)
    run,            \* Some(what the last finished forecast run did)
    state,          \* AppState of the AppProvider reducer
    calcPending,    \* fundInputs captured by calculateForecast calls in flight
    timelineCall,   \* the locals of the calculateTimeline call, and its outcome
    consumed,       \* a ForecastResult handed to postProcessForecast / exports
    allocationInput,\* props of AllocationInput and what it passed to onChange
    storage,        \* what SecureStorage holds under each key
    timer,          \* Some(the render whose saveFund the auto-save timeout calls)
    saves,          \* the saveFund calls in flight
    load,           \* the mount-time loadFund call
    scenarioRuns,   \* the runScenarios calls in flight
    fundSetup,      \* the FundSetup page: its form data and what handleSave did
    logged          \* the messages passed to console.error

wfVars == <<wfArgs, wfTiers, waterfall>>

cohortVars == <<now, portfolio, prevPortfolio, cohortError>>

forecastVars == <<run, state, calcPending>>

timelineVars == <<timelineCall>>

consumerVars == <<consumed>>

formVars == <<allocationInput>>

appVars == <<storage, timer, saves, load, scenarioRuns, fundSetup, logged>>

\* the variables of the sections that follow the forecast runs
laterVars == <<timelineVars, consumerVars, formVars, appVars>>

vars == <<callInputs, now, wfArgs, wfTiers, waterfall, portfolio, prevPortfolio,
          cohortError, run, state, calcPending, timelineCall, consumed,
          allocationInput, storage, timer, saves, load, scenarioRuns, fundSetup,
          logged>>

\* ------------------------------------------------------------------------
\* EnhancedFundInputs
\* ------------------------------------------------------------------------

\* the single-stage scenario: Seed at 100%, 10 target companies, $1M checks
SeedStrategy ==
    [ stage             |-> "Seed",
      allocationPercent |-> AllocDen,
      checkSize         |-> 1000000,
      targetCompanies   |-> 10 * CountDen,
      targetOwnership   |-> 6,
      entryValuation    |-> 200 * MoneyUnit ]

\* StageExitProbabilities of the default Seed row: 0.6 failure, 0.25
\* mediocre, 0.12 good, 0.03 great
DefaultExitRow ==
    [ failure  |-> ProbDen - (ProbDen \div 4) - (ProbDen \div 8) - (ProbDen \div 32),
      mediocre |-> ProbDen \div 4,
      good     |-> ProbDen \div 8,
      great    |-> ProbDen \div 32 ]

\* a row with all its weight on failure
AllFailExitRow ==
    [ failure |-> ProbDen, mediocre |-> 0, good |-> 0, great |-> 0 ]

\* a row whose probabilities sum to one half
ShortExitRow ==
    [ failure |-> ProbDen \div 2, mediocre |-> 0, good |-> 0, great |-> 0 ]

\* the stages the model gives a row to
MatrixStages == {"Pre-Seed", "Seed"}

\* ExitProbabilityMatrix with the same row for every stage
UniformExitMatrix(row) == [ stage \in MatrixStages |-> row ]

\* a $50M fund, 5-year investment period, 10-year life, 2% fee, 20% carry,
\* 8% hurdle, 2% GP commitment, full catch-up
ScenarioInputs ==
    [ fundSize              |-> 50,
      managementFeeRate     |-> 1,
      carryRate             |-> 10,
      hurdleRate            |-> 4,
      gpCommitment          |-> 1,
      catchUp               |-> TRUE,
      investmentPeriodYears |-> 5,
      fundLifeYears         |-> 10,
      stageStrategies       |-> <<SeedStrategy>>,
      exitProbabilityMatrix |-> UniformExitMatrix(DefaultExitRow) ]

\* ------------------------------------------------------------------------
\* FundForecastService.calculateWaterfall
\* ------------------------------------------------------------------------

\* totalCapitalCalled = totalInvested / (1 - gpCommitment)
totalCapitalCalledOf(totalInvested, gpCommitment) ==
    Ratio(totalInvested * RateDen, RateDen - gpCommitment)

\* lpCapitalCalled = totalCapitalCalled * (1 - gpCommitment)
lpCapitalCalledOf(totalCapitalCalled, gpCommitment) ==
    (totalCapitalCalled.num * (RateDen - gpCommitment))
        \div (totalCapitalCalled.den * RateDen)

\* a bug: the whole LP capital is returned even when less is left
returnOfCapital_unbounded(remainingDistributions, lpCapitalCalled) ==
    lpCapitalCalled

\* capitalReturn = Math.min(remainingDistributions, lpCapitalCalled)
returnOfCapital(remainingDistributions, lpCapitalCalled) ==
    Min(remainingDistributions, lpCapitalCalled)

\* a bug: the preferred return accrues for one year only
accruedPreferredReturn_oneYear(lpCapitalCalled, hurdleRate, fundLifeYears) ==
    (lpCapitalCalled * hurdleRate) \div RateDen

\* preferredReturn = lpCapitalCalled * hurdleRate * (fundLifeYears * 0.7)
accruedPreferredReturn(lpCapitalCalled, hurdleRate, fundLifeYears) ==
    (lpCapitalCalled * hurdleRate * fundLifeYears * PrefYearsNum)
        \div (RateDen * PrefYearsDen)

\* a bug: the GP is paid the LP's share of the residual
carriedInterestOn_lpShare(remainingDistributions, carryRate) ==
    (remainingDistributions * (RateDen - carryRate)) \div RateDen

\* carriedInterest = remainingDistributions * carryRate
carriedInterestOn(remainingDistributions, carryRate) ==
    (remainingDistributions * carryRate) \div RateDen

\* a bug: the carry is not taken out of the LP's part
lpResidual_keepsCarry(remainingDistributions, carriedInterest) ==
    remainingDistributions

\* the LP's part of the residual: remainingDistributions - carriedInterest
lpResidual(remainingDistributions, carriedInterest) ==
    remainingDistributions - carriedInterest

\* the body of calculateWaterfall, every local kept
waterfallTiers(totalDistributions, totalInvested, inputs) ==
    LET totalCapitalCalled ==
            totalCapitalCalledOf(totalInvested, inputs.gpCommitment)
        lpCapitalCalled ==
            lpCapitalCalledOf(totalCapitalCalled, inputs.gpCommitment)
        \* Return of capital
        capitalReturn == returnOfCapital(totalDistributions, lpCapitalCalled)
        lp1  == 0 + capitalReturn
        rem1 == totalDistributions - capitalReturn
        \* Preferred return
        preferredReturn ==
            accruedPreferredReturn(lpCapitalCalled, inputs.hurdleRate,
                                   inputs.fundLifeYears)
        prefReturn == Min(rem1, preferredReturn)
        lp2  == lp1 + prefReturn
        rem2 == rem1 - prefReturn
        \* Carried interest on remaining
        carriedInterest ==
            IF rem2 > 0 THEN carriedInterestOn(rem2, inputs.carryRate) ELSE 0
        gpDistributions == IF rem2 > 0 THEN 0 + carriedInterest ELSE 0
        lpRest == IF rem2 > 0 THEN lpResidual(rem2, carriedInterest) ELSE 0
        lpDistributions == lp2 + lpRest
    IN  [ totalCapitalCalled |-> totalCapitalCalled,
          lpCapitalCalled    |-> lpCapitalCalled,
          capitalReturn      |-> capitalReturn,
          afterCapital       |-> rem1,
          preferredReturn    |-> preferredReturn,
          prefReturn         |-> prefReturn,
          afterPreferred     |-> rem2,
          carriedInterest    |-> carriedInterest,
          lpRest             |-> lpRest,
          lpDistributions    |-> lpDistributions,
          gpDistributions    |-> gpDistributions ]

\* the WaterfallSummary that calculateWaterfall returns
calculateWaterfall(totalDistributions, totalInvested, inputs) ==
    LET t == waterfallTiers(totalDistributions, totalInvested, inputs)
    IN  [ totalDistributions |-> totalDistributions,
          lpDistributions    |-> t.lpDistributions,
          gpDistributions    |-> t.gpDistributions,
          preferredReturn    |-> t.prefReturn,
          carryPaid          |-> t.carriedInterest,
          catchUpPaid        |-> 0,
          lpShare |-> IF totalDistributions > 0
                      THEN Ratio(t.lpDistributions, totalDistributions)
                      ELSE Ratio(0, 1),
          gpShare |-> IF totalDistributions > 0
                      THEN Ratio(t.gpDistributions, totalDistributions)
                      ELSE Ratio(0, 1),
          \* totalDistributions > totalCapitalCalled ?
          \*   carriedInterest / (totalDistributions - totalCapitalCalled) : 0
          effectiveCarry |->
              IF totalDistributions * t.totalCapitalCalled.den
                     > t.totalCapitalCalled.num
              THEN Ratio(t.carriedInterest * t.totalCapitalCalled.den,
                         totalDistributions * t.totalCapitalCalled.den
                             - t.totalCapitalCalled.num)
              ELSE Ratio(0, 1) ]


\* the inputs the waterfall is tried with: every rate in [0,1)
WaterfallInputs ==
    { [ScenarioInputs EXCEPT !.gpCommitment = g, !.hurdleRate = h,
                             !.carryRate = c, !.fundLifeYears = y,
                             !.catchUp = cu] :
      g \in GpCommitments, h \in HurdleRates, c \in CarryRates,
      y \in 0..MaxLifeYears, cu \in BOOLEAN }

\* the totals a caller may pass to calculateWaterfall
WaterfallArgs ==
    { [ totalDistributions |-> d * MoneyUnit, totalInvested |-> i * MoneyUnit ] :
      d \in 0..MaxDistributions, i \in 0..MaxInvested }

\* the waterfall has not been computed
WfIdle ==
    /\ wfTiers = None
    /\ waterfall = None

\* a caller invokes forecastService.calculateWaterfall(d, i, inputs)
CalculateWaterfall ==
    /\ wfTiers = None
    /\ wfTiers' = Some(waterfallTiers(wfArgs.totalDistributions,
                                      wfArgs.totalInvested, callInputs))
    /\ waterfall' = Some(calculateWaterfall(wfArgs.totalDistributions,
                                            wfArgs.totalInvested, callInputs))
    /\ UNCHANGED <<callInputs, wfArgs, cohortVars, forecastVars, laterVars>>

\* ------------------------------------------------------------------------
\* FundForecastService.generatePortfolio
\* ------------------------------------------------------------------------

\* Math.round of the count x / CountDen: floor(x + 1/2)
round(x) == (2 * x + CountDen) \div (2 * CountDen)

\* the company pushed by iteration i of the loop over one strategy
newCompany(strategy, companyId, i, date) ==
    [ id           |-> <<"company-", companyId>>,
      name         |-> <<strategy.stage, " Company ", i + 1>>,
      currentStage |-> strategy.stage,
      investments  |-> << [ round     |-> strategy.stage,
                            amount    |-> strategy.checkSize,
                            date      |-> date,
                            ownership |-> strategy.targetOwnership,
                            valuation |-> strategy.entryValuation ] >>,
      currentValuation |->
          (strategy.entryValuation * (RateDen + strategy.targetOwnership))
              \div RateDen,
      status       |-> "active",
      metrics      |-> [revenue |-> 0, growth |-> 0, runway |-> 18] ]

\* a bug: the loop runs while i <= companiesInStage
stageCompanies_offByOne(strategy, companyId, date) ==
    [ k \in 1..(round(strategy.targetCompanies) + 1) |->
          newCompany(strategy, companyId + k - 1, k - 1, date) ]

\* for (let i = 0; i < companiesInStage; i++) portfolio.push(...)
stageCompanies(strategy, companyId, date) ==
    LET companiesInStage == round(strategy.targetCompanies)
    IN  IF companiesInStage <= 0
        THEN <<>>
        ELSE [ k \in 1..companiesInStage |->
                   newCompany(strategy, companyId + k - 1, k - 1, date) ]

\* inputs.stageStrategies.forEach(...) from strategy k on, companyId running
RECURSIVE generateFrom(_, _, _, _)
generateFrom(strategies, k, companyId, date) ==
    IF k > Len(strategies)
    THEN <<>>
    ELSE LET cs == stageCompanies(strategies[k], companyId, date)
         IN  cs \o generateFrom(strategies, k + 1, companyId + Len(cs), date)

\* generatePortfolio(inputs), called when new Date() reads date
generatePortfolio(inputs, date) ==
    generateFrom(inputs.stageStrategies, 1, 1, date)

\* the stage policies tried: a funded Pre-Seed stage and an unfunded Seed stage
StageProfiles ==
    { [ stage |-> "Pre-Seed", allocationPercent |-> AllocDen \div 2,
        checkSize |-> 500000, targetOwnership |-> 4,
        entryValuation |-> 200 * MoneyUnit ],
      [ stage |-> "Seed", allocationPercent |-> 0,
        checkSize |-> 1500000, targetOwnership |-> 6,
        entryValuation |-> 600 * MoneyUnit ] }

CohortStrategies ==
    { [ stage             |-> p.stage,
        allocationPercent |-> p.allocationPercent,
        checkSize         |-> p.checkSize,
        targetCompanies   |-> t,
        targetOwnership   |-> p.targetOwnership,
        entryValuation    |-> p.entryValuation ] :
      p \in StageProfiles, t \in 0..MaxTargetCompanies }

\* the sequences over S of length at most n
SeqsUpTo(S, n) == UNION { [1..k -> S] : k \in 0..n }

\* the inputs generatePortfolio is tried with
CohortInputs ==
    { [ScenarioInputs EXCEPT !.stageStrategies = ss] :
      ss \in SeqsUpTo(CohortStrategies, MaxStrategies) } \cup {ScenarioInputs}

\* generatePortfolio has not been called
CohortIdle ==
    /\ now = 0
    /\ portfolio = None
    /\ prevPortfolio = None
    /\ cohortError = None

\* time passes
Tick ==
    /\ now < MaxClock
    /\ now' = now + 1
    /\ UNCHANGED <<callInputs, wfVars, portfolio, prevPortfolio,
                   cohortError, forecastVars, laterVars>>

\* a caller invokes forecastService.generatePortfolio(inputs); the function
\* has no throw statement, so it returns.  The clock is read once for the
\* call: the reads of new Date() within one synchronous call are taken to
\* fall on the same instant.
GeneratePortfolio ==
    /\ prevPortfolio = None
    /\ portfolio' = Some(generatePortfolio(callInputs, now))
    /\ prevPortfolio' = portfolio
    /\ cohortError' = None
    /\ UNCHANGED <<callInputs, now, wfVars, forecastVars, laterVars>>

\* ------------------------------------------------------------------------
\* Forecast runs: FundForecastService.runForecast,
\* EnhancedFundModel.runForecast, AppProvider.calculateForecast
\* ------------------------------------------------------------------------

Abs(x) == IF x < 0 THEN -x ELSE x

\* stageStrategies.reduce((sum, s) => sum + s.allocationPercent, 0)
RECURSIVE totalAllocationFrom(_, _)
totalAllocationFrom(strategies, k) ==
    IF k > Len(strategies)
    THEN 0
    ELSE strategies[k].allocationPercent + totalAllocationFrom(strategies, k + 1)

\* Math.abs(totalAllocation - 1) > 0.001
allocationOff(inputs) ==
    Abs(totalAllocationFrom(inputs.stageStrategies, 1) - AllocDen) * AllocTolDen
        > AllocDen

\* FundForecastService.validateInputs: Some(message thrown) or None
validateInputs(inputs) ==
    IF inputs.fundSize <= 0
    THEN Some("Fund size must be greater than 0")
    ELSE IF inputs.managementFeeRate < 0 \/ inputs.managementFeeRate * 10 > RateDen
    THEN Some("Management fee rate must be between 0% and 10%")
    ELSE IF inputs.carryRate < 0 \/ inputs.carryRate * 2 > RateDen
    THEN Some("Carry rate must be between 0% and 50%")
    ELSE IF allocationOff(inputs)
    THEN Some("Stage allocations must sum to 100%")
    ELSE None

\* what new EnhancedCohortEngine(inputs).generateForecast() may give back:
\* the engine is not among the sources, so a call either throws (None) or
\* returns one of these forecasts
EngineForecasts ==
    { [ portfolio |->
            generatePortfolio(
                [ScenarioInputs EXCEPT !.stageStrategies =
                     <<[SeedStrategy EXCEPT !.targetCompanies = 2 * CountDen]>>],
                0),
        timeline  |-> <<>>,
        waterfall |-> calculateWaterfall(d, 2 * MoneyUnit, ScenarioInputs),
        irr       |-> [gross |-> 10, net |-> 8],
        moic      |-> [gross |-> Ratio(d + MoneyUnit, 2 * MoneyUnit),
                       net   |-> Ratio(d + MoneyUnit, 3 * MoneyUnit)],
        dpi       |-> Ratio(d, 3 * MoneyUnit),
        rvpi      |-> Ratio(MoneyUnit, 3 * MoneyUnit),
        tvpi      |-> Ratio(d + MoneyUnit, 3 * MoneyUnit),
        totalInvested    |-> 2 * MoneyUnit,
        totalDistributed |-> d,
        portfolioValue   |-> MoneyUnit,
        managementFees   |-> MoneyUnit,
        carriedInterest  |-> 0 ] : d \in {0, 6 * MoneyUnit} }

EngineOutcomes == {None} \cup { Some(f) : f \in EngineForecasts }

\* the fundMetrics that postProcessForecast computes
fundMetricsOf(forecast, inputs) ==
    [ capitalCalled       |-> Ratio(forecast.totalInvested * 11, 10),
      capitalDistributed  |-> forecast.totalDistributed,
      capitalRemaining    |-> (inputs.fundSize * 1000000) - forecast.totalInvested,
      dryPowder           |-> (inputs.fundSize * 1000000) - forecast.totalInvested,
      totalValue          |-> forecast.totalDistributed + forecast.portfolioValue,
      netAssetValue       |-> forecast.portfolioValue,
      totalManagementFees |-> forecast.managementFees,
      totalCarriedInterest |-> forecast.carriedInterest,
      lpNetProceeds       |-> forecast.totalDistributed - forecast.carriedInterest,
      gpTotalCompensation |-> forecast.managementFees + forecast.carriedInterest ]

\* a bug: the result is built field by field and dpi is recomputed on the
\* capital called
postProcessForecast_recomputesDpi(forecast, inputs) ==
    [ k \in DOMAIN forecast \cup {"fundMetrics"} |->
        IF k = "fundMetrics" THEN fundMetricsOf(forecast, inputs)
        ELSE IF k = "dpi"
        THEN Ratio(forecast.totalDistributed * 10, forecast.totalInvested * 11)
        ELSE forecast[k] ]

\* FundForecastService.postProcessForecast: { ...forecast, fundMetrics }, a
\* new object with every property of forecast and fundMetrics set
postProcessForecast(forecast, inputs) ==
    [ k \in DOMAIN forecast \cup {"fundMetrics"} |->
        IF k = "fundMetrics" THEN fundMetricsOf(forecast, inputs)
        ELSE forecast[k] ]

\* the record of one forecast run
RunRecord(path, inputs, constructed, generated, error, result) ==
    [ path              |-> path,
      inputs            |-> inputs,
      engineConstructed |-> constructed,
      simulated         |-> generated,
      error             |-> error,
      result            |-> result ]

\* FundForecastService.runForecast(inputs), the engine giving engineOutcome
serviceRunForecast(inputs, engineOutcome) ==
    LET invalid == validateInputs(inputs)
    IN  IF IsSome(invalid)
        THEN RunRecord("FundForecastService.runForecast", inputs, FALSE, FALSE,
                       Some(<<"Forecast failed: ", Val(invalid)>>), None)
        ELSE IF engineOutcome = None
        THEN RunRecord("FundForecastService.runForecast", inputs, TRUE, TRUE,
                       Some(<<"Forecast failed: ", "engine">>), None)
        ELSE RunRecord("FundForecastService.runForecast", inputs, TRUE, TRUE,
                       None,
                       Some(postProcessForecast(Val(engineOutcome), inputs)))

\* EnhancedFundModel.runForecast(inputs), the engine giving engineOutcome
modelRunForecast(inputs, engineOutcome) ==
    IF engineOutcome = None
    THEN RunRecord("EnhancedFundModel.runForecast", inputs, TRUE, TRUE,
                   Some(<<"engine">>), None)
    ELSE RunRecord("EnhancedFundModel.runForecast", inputs, TRUE, TRUE,
                   None, engineOutcome)

\* const initialState: AppState
initialState ==
    [ fundInputs         |-> None,
      currentForecast    |-> None,
      isCalculating      |-> FALSE,
      scenarios          |-> <<>>,
      scenarioResults    |-> <<>>,
      actualInvestments  |-> <<>>,
      selectedScenarioId |-> None,
      isDirty            |-> FALSE,
      lastSaved          |-> None ]

\* { ...object, ...updates }: the properties of updates over those of object
Spread(object, updates) ==
    [ k \in DOMAIN object \cup DOMAIN updates |->
        IF k \in DOMAIN updates THEN updates[k] ELSE object[k] ]

\* list.filter(x => x[key] !== value)
FilterOut(list, key, value) ==
    LET keep(x) == x[key] # value
    IN  SelectSeq(list, keep)

\* appReducer(state, action)
appReducer(st, action) ==
    CASE action.type = "SET_FUND_INPUTS" ->
           [st EXCEPT !.fundInputs = Some(action.payload), !.isDirty = TRUE]
      [] action.type = "SET_FORECAST_RESULT" ->
           [st EXCEPT !.currentForecast = Some(action.payload),
                      !.isCalculating = FALSE]
      [] action.type = "SET_CALCULATING" ->
           [st EXCEPT !.isCalculating = action.payload]
      [] action.type = "ADD_SCENARIO" ->
           [st EXCEPT !.scenarios = Append(@, action.payload), !.isDirty = TRUE]
      [] action.type = "UPDATE_SCENARIO" ->
           [st EXCEPT !.scenarios =
                          [ i \in 1..Len(@) |->
                              IF @[i].id = action.payload.id
                              THEN Spread(@[i], action.payload.updates)
                              ELSE @[i] ],
                      !.isDirty = TRUE]
      [] action.type = "DELETE_SCENARIO" ->
           [st EXCEPT !.scenarios = FilterOut(@, "id", action.payload),
                      !.scenarioResults = FilterOut(@, "scenarioId", action.payload),
                      !.selectedScenarioId =
                          IF @ = Some(action.payload) THEN None ELSE @,
                      !.isDirty = TRUE]
      [] action.type = "SET_SCENARIO_RESULTS" ->
           [st EXCEPT !.scenarioResults = action.payload]
      [] action.type = "SELECT_SCENARIO" ->
           [st EXCEPT !.selectedScenarioId = action.payload]
      [] action.type = "SET_DIRTY" ->
           [st EXCEPT !.isDirty = action.payload]
      [] action.type = "SET_LAST_SAVED" ->
           [st EXCEPT !.lastSaved = Some(action.payload), !.isDirty = FALSE]
      [] action.type = "LOAD_STATE" ->
           Spread(st, action.payload)
      [] OTHER -> st

\* what saveFund, runScenarios and calculateForecast of a render read of its
\* state
Closure(st) == [fundInputs |-> st.fundInputs, scenarios |-> st.scenarios]

\* the auto-save effect after the render that took the state from prev to
\* next, pending being the timeout set before: when isDirty or fundInputs
\* changed, the cleanup clears the timeout and the effect sets a new one, on
\* the saveFund of this render, if the state is dirty and has fund inputs
autoSaveEffect(prev, next, pending) ==
    IF prev.isDirty = next.isDirty /\ prev.fundInputs = next.fundInputs
    THEN pending
    ELSE IF next.isDirty /\ IsSome(next.fundInputs)
    THEN Some(Closure(next))
    ELSE None

\* dispatch(action) and the render that follows
Dispatch(action) ==
    /\ state' = appReducer(state, action)
    /\ timer' = autoSaveEffect(state, appReducer(state, action), timer)

\* two dispatches made one after the other in one step
DispatchBoth(first, second) ==
    LET mid  == appReducer(state, first)
        next == appReducer(mid, second)
    IN  /\ state' = next
        /\ timer' = autoSaveEffect(state, next, timer)

\* the i-th element of a sequence taken out
RemoveAt(s, i) == SubSeq(s, 1, i - 1) \o SubSeq(s, i + 1, Len(s))

\* no forecast has run
ForecastIdle ==
    /\ run = None
    /\ state = initialState
    /\ calcPending = <<>>

\* a caller awaits forecastService.runForecast(inputs)
ServiceRunForecast ==
    \E engineOutcome \in EngineOutcomes :
        /\ run' = Some(serviceRunForecast(callInputs, engineOutcome))
        /\ UNCHANGED <<callInputs, wfVars, cohortVars, state, calcPending, laterVars>>

\* a caller awaits EnhancedFundModel.runForecast(inputs)
ModelRunForecast ==
    \E engineOutcome \in EngineOutcomes :
        /\ run' = Some(modelRunForecast(callInputs, engineOutcome))
        /\ UNCHANGED <<callInputs, wfVars, cohortVars, state, calcPending, laterVars>>

\* a component dispatches { type: 'SET_FUND_INPUTS', payload: inputs }
SetFundInputs ==
    /\ Dispatch([type |-> "SET_FUND_INPUTS", payload |-> callInputs])
    /\ UNCHANGED <<callInputs, wfVars, cohortVars, run, calcPending, timelineVars,
                   consumerVars, formVars, storage, saves, load, scenarioRuns,
                   fundSetup, logged>>

\* calculateForecast up to its first await: nothing happens when there are
\* no fund inputs, else SET_CALCULATING is dispatched and the rest of the
\* call is suspended with the fund inputs of its closure
CalculateForecastStart ==
    /\ IsSome(state.fundInputs)
    /\ Len(calcPending) < MaxPending
    /\ state' = appReducer(state, [type |-> "SET_CALCULATING", payload |-> TRUE])
    /\ calcPending' = Append(calcPending, Val(state.fundInputs))
    /\ UNCHANGED <<callInputs, wfVars, cohortVars, run, laterVars>>

\* calculateForecast after the await: when the import fails, or the engine
\* built on the captured fund inputs throws, the catch block logs, dispatches
\* SET_CALCULATING false and rethrows; else SET_FORECAST_RESULT is dispatched
CalculateForecastFinish ==
    \E i \in 1..Len(calcPending), imported \in BOOLEAN,
       engineOutcome \in EngineOutcomes :
        /\ calcPending' = RemoveAt(calcPending, i)
        /\ IF ~imported
           THEN /\ state' = appReducer(state, [type |-> "SET_CALCULATING",
                                               payload |-> FALSE])
                /\ run' = Some(RunRecord("AppProvider.calculateForecast",
                                         calcPending[i], FALSE, FALSE,
                                         Some(<<"import">>), None))
           ELSE IF engineOutcome = None
           THEN /\ state' = appReducer(state, [type |-> "SET_CALCULATING",
                                               payload |-> FALSE])
                /\ run' = Some(RunRecord("AppProvider.calculateForecast",
                                         calcPending[i], TRUE, TRUE,
                                         Some(<<"engine">>), None))
           ELSE /\ state' = appReducer(state, [type |-> "SET_FORECAST_RESULT",
                                               payload |-> Val(engineOutcome)])
                /\ run' = Some(RunRecord("AppProvider.calculateForecast",
                                         calcPending[i], TRUE, TRUE,
                                         None, engineOutcome))
        /\ logged' = IF ~imported \/ engineOutcome = None
                     THEN logged \cup {"Forecast calculation failed:"}
                     ELSE logged
        /\ UNCHANGED <<callInputs, wfVars, cohortVars, timelineVars, consumerVars,
                       formVars, storage, timer, saves, load, scenarioRuns,
                       fundSetup>>

\* Object.values(exitProbabilities).reduce((sum, p) => sum + p, 0) is more
\* than 0.001 away from 1
exitRowOff(row) ==
    Abs(row.failure + row.mediocre + row.good + row.great - ProbDen) * AllocTolDen
        > ProbDen

\* the exit-probability matrices tried: every row summing to 1, or the Seed
\* row summing to one half
ExitMatrices ==
    { UniformExitMatrix(DefaultExitRow),
      [UniformExitMatrix(DefaultExitRow) EXCEPT !["Seed"] = ShortExitRow] }

\* the inputs a forecast is run with
AllocationChoices == {0, (AllocDen \div 2) - 3, AllocDen \div 2, AllocDen, AllocDen + 1}

ForecastStrategies ==
    { [SeedStrategy EXCEPT !.allocationPercent = a, !.targetCompanies = CountDen] :
      a \in AllocationChoices }

ForecastInputs ==
    { [ScenarioInputs EXCEPT !.fundSize = fs, !.managementFeeRate = fee,
                             !.carryRate = c, !.investmentPeriodYears = p,
                             !.fundLifeYears = 2, !.stageStrategies = ss,
                             !.exitProbabilityMatrix = m] :
      fs \in {0, 50}, fee \in {1, 10}, c \in {10, 30}, p \in 1..3,
      ss \in SeqsUpTo(ForecastStrategies, MaxStrategies),
      m \in ExitMatrices }

\* ------------------------------------------------------------------------
\* FundForecastService.calculateTimeline
\*
\* Dollar amounts of the timeline are kept in two limbs: the record
\* [mil, one, nan] stands for
\*     mil * 1000000 / timelineDen(investmentQuarters) + one / (4 * RateDen)
\* dollars, or for NaN when nan holds.  Everything derived from
\* inputs.fundSize * 1000000 is in the first limb, the fee feeRate / 4 of an
\* investment-period quarter is in the second.  Math.sin is tabulated to one
\* decimal.  The fields computed with Math.pow (portfolioValue, nav, rvpi,
\* tvpi, grossMOIC, netMOIC, grossIRR, netIRR) and quarterLabel are left out:
\* no other field is computed from them.
\* ------------------------------------------------------------------------

\* no distributions in the first 3 years: if (quarter < 12) return 0
LockUpQuarters == 12

\* largest fundLifeYears a timeline is computed for, besides the 10-year
\* scenario
MaxTimelineYears == 4

\* Math.sin(quarter * 0.5) in tenths, quarter = 0, 1, ...
SinHalfTenths ==
    << 0, 5, 8, 10, 9, 6, 1, -4, -8, -10, -10, -7, -3, 2, 7, 9, 10, 8, 4, -1,
       -5, -9, -10, -9, -5, -1, 4, 8, 10, 9, 7, 2, -3, -7, -10, -10, -8, -3,
       1, 6, 9, 10, 8, 5, 0, -5, -8, -10 >>

\* the denominator of the first limb
timelineDen(investmentQuarters) ==
    1000 * 4 * RateDen * (IF investmentQuarters = 0 THEN 1 ELSE investmentQuarters)

Amount(mil, one) == [mil |-> mil, one |-> one, nan |-> FALSE]

NaN == [mil |-> 0, one |-> 0, nan |-> TRUE]

\* a + b
Plus(a, b) ==
    IF a.nan \/ b.nan THEN NaN ELSE Amount(a.mil + b.mil, a.one + b.one)

\* a - b
Minus(a, b) ==
    IF a.nan \/ b.nan THEN NaN ELSE Amount(a.mil - b.mil, a.one - b.one)

\* a === 0
IsZero(a) == ~a.nan /\ a.mil = 0 /\ a.one = 0

\* a > 0, for an amount whose limbs do not differ in sign
Positive(a) ==
    /\ ~a.nan
    /\ a.mil >= 0
    /\ a.one >= 0
    /\ (a.mil > 0 \/ a.one > 0)

\* inputs.fundSize * 1000000
fundSizeDollars(inputs) ==
    Amount(inputs.fundSize * timelineDen(inputs.investmentPeriodYears * 4), 0)

\* a bug: capital keeps being deployed after the investment period
calculateQuarterlyDeployment_always(quarter, investmentQuarters, totalCapital, pf) ==
    LET baseDeployment ==
            (totalCapital.mil * 6)
                \div (10 * (IF investmentQuarters = 0 THEN 1 ELSE investmentQuarters))
    IN  Amount((baseDeployment * (100 + 2 * SinHalfTenths[quarter + 1]))
                   \div 100, 0)

\* calculateQuarterlyDeployment(quarter, investmentQuarters, totalCapital,
\* portfolio): 0 after the investment period, else
\* totalCapital * 0.6 / investmentQuarters * (1 + Math.sin(quarter * 0.5) * 0.2)
calculateQuarterlyDeployment(quarter, investmentQuarters, totalCapital, pf) ==
    IF quarter >= investmentQuarters
    THEN Amount(0, 0)
    ELSE LET baseDeployment == (totalCapital.mil * 6) \div (10 * investmentQuarters)
         IN  Amount((baseDeployment * (100 + 2 * SinHalfTenths[quarter + 1]))
                        \div 100, 0)

\* a bug: distributions start in quarter 0
calculateQuarterlyDistributions_noLockUp(quarter, pf, inputs) ==
    IF Len(pf) = 0
    THEN NaN
    ELSE Amount(((fundSizeDollars(inputs).mil \div 100) * 3 * 5 * Len(pf))
                    \div Len(pf), 0)

\* calculateQuarterlyDistributions(quarter, portfolio, inputs): 0 before
\* quarter 12, else avgInvestment * avgMultiple * exitRate * portfolio.length
\* with avgInvestment = inputs.fundSize * 1000000 / portfolio.length, which
\* is Infinity * 0 = NaN for an empty portfolio
calculateQuarterlyDistributions(quarter, pf, inputs) ==
    IF quarter < LockUpQuarters
    THEN Amount(0, 0)
    ELSE IF Len(pf) = 0
    THEN NaN
    ELSE LET avgInvestment == Ratio(fundSizeDollars(inputs).mil, Len(pf))
         IN  Amount(((avgInvestment.num \div 100) * 3 * 5 * Len(pf))
                        \div avgInvestment.den, 0)

\* a bug: no fee is charged after the investment period
calculateQuarterlyFees_noneAfter(investedCapital, feeRate, quarter, investmentQuarters) ==
    IF quarter < investmentQuarters THEN Amount(0, feeRate) ELSE Amount(0, 0)

\* calculateQuarterlyFees(investedCapital, feeRate, quarter,
\* investmentQuarters): feeRate / 4 during the investment period, then
\* investedCapital * feeRate / 4
calculateQuarterlyFees(investedCapital, feeRate, quarter, investmentQuarters) ==
    IF quarter < investmentQuarters
    THEN Amount(0, feeRate)
    ELSE IF investedCapital.nan
    THEN NaN
    ELSE Amount((investedCapital.mil * feeRate) \div (4 * RateDen),
                (investedCapital.one * feeRate) \div (4 * RateDen))

\* capitalCalled > 0 ? cumulativeDistributed / capitalCalled : 0
dpiOf(cumulativeDistributed, capitalCalled) ==
    IF Positive(capitalCalled)
    THEN Ratio(cumulativeDistributed, capitalCalled)
    ELSE Ratio(Amount(0, 0), Amount(0, 1))

\* the TimelineMetrics pushed by one iteration of the loop, given the
\* cumulative values the earlier iterations left in c
timelineRecord(c, inputs) ==
    LET quarter == c.quarter
        investmentQuarters == inputs.investmentPeriodYears * 4
        deployment ==
            calculateQuarterlyDeployment(quarter, investmentQuarters,
                                         fundSizeDollars(inputs), c.portfolio)
        cumulativeInvested == Plus(c.cumulativeInvested, deployment)
        distributions ==
            calculateQuarterlyDistributions(quarter, c.portfolio, inputs)
        cumulativeDistributed == Plus(c.cumulativeDistributed, distributions)
        fees == calculateQuarterlyFees(cumulativeInvested,
                                       inputs.managementFeeRate, quarter,
                                       investmentQuarters)
        cumulativeFees == Plus(c.cumulativeFees, fees)
        capitalCalled == Plus(cumulativeInvested, cumulativeFees)
    IN  [ quarter            |-> quarter,
          capitalDeployed    |-> deployment,
          capitalCalled      |-> Plus(deployment, fees),
          distributions      |-> distributions,
          netCashFlow        |-> Minus(distributions, Plus(deployment, fees)),
          cumulativeCashFlow |-> Minus(cumulativeDistributed, capitalCalled),
          totalInvested      |-> cumulativeInvested,
          totalDistributed   |-> cumulativeDistributed,
          dpi                |-> dpiOf(cumulativeDistributed, capitalCalled),
          managementFees     |-> fees,
          carriedInterest    |-> 0 ]

\* calculateTimeline has not been called
TimelineIdle ==
    timelineCall = [ pc                    |-> "idle",
                     portfolio             |-> <<>>,
                     quarter               |-> 0,
                     cumulativeInvested    |-> Amount(0, 0),
                     cumulativeDistributed |-> Amount(0, 0),
                     cumulativeFees        |-> Amount(0, 0),
                     timeline              |-> <<>> ]

\* a caller invokes calculateTimeline(generatePortfolio(inputs), inputs): the
\* locals are initialised and the loop is entered with quarter = 0
CalculateTimeline ==
    /\ timelineCall.pc = "idle"
    /\ timelineCall' = [timelineCall EXCEPT
                            !.pc = "loop",
                            !.portfolio = generatePortfolio(callInputs, now)]
    /\ UNCHANGED <<callInputs, wfVars, cohortVars, forecastVars,
                   consumerVars, formVars, appVars>>

\* one iteration of for (quarter = 0; quarter < totalQuarters; quarter++)
TimelineQuarter ==
    /\ timelineCall.pc = "loop"
    /\ timelineCall.quarter < callInputs.fundLifeYears * 4
    /\ LET r == timelineRecord(timelineCall, callInputs)
       IN  timelineCall' = [timelineCall EXCEPT
                                !.quarter = @ + 1,
                                !.cumulativeInvested = r.totalInvested,
                                !.cumulativeDistributed = r.totalDistributed,
                                !.cumulativeFees = Plus(@, r.managementFees),
                                !.timeline = Append(@, r)]
    /\ UNCHANGED <<callInputs, wfVars, cohortVars, forecastVars,
                   consumerVars, formVars, appVars>>

\* the loop is left: calculateIRRs(timeline) reads
\* timeline[timeline.length - 1].totalInvested, a TypeError on an empty
\* timeline; otherwise the timeline is returned
TimelineReturn ==
    /\ timelineCall.pc = "loop"
    /\ timelineCall.quarter >= callInputs.fundLifeYears * 4
    /\ timelineCall' = [timelineCall EXCEPT
                            !.pc = IF Len(timelineCall.timeline) = 0
                                   THEN "threw"
                                   ELSE "returned"]
    /\ UNCHANGED <<callInputs, wfVars, cohortVars, forecastVars,
                   consumerVars, formVars, appVars>>

\* the strategies a timeline is computed for: the scenario's, and a Seed
\* stage whose targetCompanies is 0, which generates no company
TimelineStrategies ==
    { <<SeedStrategy>>, <<[SeedStrategy EXCEPT !.targetCompanies = 0]>> }

\* the inputs calculateTimeline is tried with: fundSize > 0, fees of 0% and
\* 2%, investment periods shorter and longer than the fund life
TimelineInputs ==
    { [ScenarioInputs EXCEPT !.fundSize = fs, !.managementFeeRate = fee,
                             !.investmentPeriodYears = p, !.fundLifeYears = y,
                             !.stageStrategies = ss,
                             !.exitProbabilityMatrix = UniformExitMatrix(row)] :
      fs \in {1, 50}, fee \in {0, 1}, p \in 0..MaxTimelineYears,
      y \in 0..MaxTimelineYears, ss \in TimelineStrategies,
      row \in {DefaultExitRow, AllFailExitRow} }
    \cup { [ScenarioInputs EXCEPT !.exitProbabilityMatrix = UniformExitMatrix(row)] :
           row \in {DefaultExitRow, AllFailExitRow} }

\* ------------------------------------------------------------------------
\* Consumers of a ForecastResult and the allocation form
\* ------------------------------------------------------------------------

\* ExcelExportService: a sheet is its name and its rows of raw values; the
\* formatters (formatCurrency, formatPercent, formatNumber, formatDate) and
\* the cell styling, which only write to the new worksheet, are left out.

\* addSummarySheet(workbook, result, inputs)
summarySheet(result, inputs) ==
    [ name |-> "Summary",
      rows |-> << <<"Fund Size:", inputs.fundSize * 1000000>>,
                  <<"MOIC:", result.moic.gross, result.moic.net>>,
                  <<"IRR:", result.irr.gross, result.irr.net>>,
                  <<"DPI:", result.dpi>>,
                  <<"RVPI:", result.rvpi>>,
                  <<"TVPI:", result.tvpi>>,
                  <<"Total Invested:", result.totalInvested>>,
                  <<"Total Distributed:", result.totalDistributed>>,
                  <<"Portfolio Value:", result.portfolioValue>>,
                  <<"Management Fees:", result.managementFees>>,
                  <<"Carried Interest:", result.carriedInterest>>,
                  <<"Total Companies:", Len(result.portfolio)>>,
                  <<"Active Companies:",
                    Cardinality({ i \in 1..Len(result.portfolio) :
                                    result.portfolio[i].status = "active" })>>,
                  <<"Exited Companies:",
                    Cardinality({ i \in 1..Len(result.portfolio) :
                                    result.portfolio[i].status = "exited" })>>,
                  <<"Written Off:",
                    Cardinality({ i \in 1..Len(result.portfolio) :
                                    result.portfolio[i].status = "written-off" })>> >> ]

\* addCashFlowSheet(workbook, timeline): timeline.map(period => ({...}))
cashFlowSheet(timeline) ==
    [ name |-> "Cash Flows",
      rows |-> [ i \in 1..Len(timeline) |->
                   [ capitalCalled      |-> timeline[i].capitalCalled,
                     capitalDeployed    |-> timeline[i].capitalDeployed,
                     distributions      |-> timeline[i].distributions,
                     netCashFlow        |-> timeline[i].netCashFlow,
                     cumulativeCashFlow |-> timeline[i].cumulativeCashFlow,
                     dpi                |-> timeline[i].dpi,
                     managementFees     |-> timeline[i].managementFees,
                     carriedInterest    |-> timeline[i].carriedInterest ] ] ]

\* company.investments.reduce((sum, inv) => sum + inv.amount, 0)
RECURSIVE investedUpTo(_, _)
investedUpTo(investments, n) ==
    IF n = 0 THEN 0 ELSE investments[n].amount + investedUpTo(investments, n - 1)

\* addPortfolioSheet(workbook, portfolio): portfolio.map(company => ({...}));
\* the generated companies have no exitValue
portfolioSheet(pf) ==
    [ name |-> "Portfolio",
      rows |-> [ i \in 1..Len(pf) |->
                   LET company == pf[i]
                       totalInvested ==
                           investedUpTo(company.investments, Len(company.investments))
                   IN  [ companyName       |-> company.name,
                         currentStage      |-> company.currentStage,
                         status            |-> company.status,
                         initialInvestment |->
                             IF Len(company.investments) > 0
                             THEN company.investments[1].amount ELSE 0,
                         totalInvested     |-> totalInvested,
                         numberOfRounds    |-> Len(company.investments),
                         currentValuation  |-> company.currentValuation,
                         multiple          |->
                             IF totalInvested > 0
                             THEN Ratio(company.currentValuation, totalInvested)
                             ELSE Ratio(0, 1) ] ] ]

\* addReserveAnalysisSheet(workbook, reserveAnalysis)
reserveAnalysisSheet(reserveAnalysis) ==
    [ name |-> "Reserve Analysis",
      rows |-> [ i \in 1..Len(reserveAnalysis) |->
                   [ company            |-> reserveAnalysis[i].companyName,
                     recommendedReserve |-> reserveAnalysis[i].recommendedReserve ] ] ]

\* addPacingAnalysisSheet(workbook, pacingAnalysis)
pacingAnalysisSheet(pacingAnalysis) ==
    [ name |-> "Pacing Analysis",
      rows |-> << <<"Total Invested:", pacingAnalysis.totalInvested>> >>
               \o [ i \in 1..Len(pacingAnalysis.quarterlyDeployments) |->
                      <<"Q", i, pacingAnalysis.quarterlyDeployments[i]>> ] ]

\* addAssumptionsSheet(workbook, inputs)
assumptionsSheet(inputs) ==
    [ name |-> "Assumptions",
      rows |-> << <<"Investment Period (years):", inputs.investmentPeriodYears>>,
                  <<"Fund Life (years):", inputs.fundLifeYears>> >>
               \o [ i \in 1..Len(inputs.stageStrategies) |->
                      <<inputs.stageStrategies[i].stage,
                        inputs.stageStrategies[i].allocationPercent,
                        inputs.stageStrategies[i].checkSize,
                        inputs.stageStrategies[i].targetCompanies>> ] ]

\* addWaterfallSheet(workbook, result)
waterfallSheet(result) ==
    [ name |-> "Waterfall",
      rows |-> << <<"Total Distributions:", result.waterfall.totalDistributions>>,
                  <<"LP Distributions:", result.waterfall.lpDistributions>>,
                  <<"LP Share:", result.waterfall.lpShare>>,
                  <<"GP Distributions:", result.waterfall.gpDistributions>>,
                  <<"GP Share:", result.waterfall.gpShare>>,
                  <<"Preferred Return:", result.waterfall.preferredReturn>>,
                  <<"Carried Interest:", result.waterfall.carryPaid>>,
                  <<"Catch-Up:", result.waterfall.catchUpPaid>>,
                  <<"Effective Carry Rate:", result.waterfall.effectiveCarry>> >> ]

\* one sheet when the condition holds
SheetIf(cond, sheet) == IF cond THEN <<sheet>> ELSE <<>>

\* exportFundModel(forecastResult, fundInputs, additionalData, options): the
\* sheets of the workbook, in the order they are appended; options has every
\* flag, the defaults of lines 50-59 filled in
exportFundModel(forecastResult, fundInputs, additionalData, options) ==
    SheetIf(options.includeSummary, summarySheet(forecastResult, fundInputs))
    \o SheetIf(options.includeCashFlows, cashFlowSheet(forecastResult.timeline))
    \o (IF options.includePortfolio /\ ~options.lpFriendly
        THEN <<portfolioSheet(forecastResult.portfolio)>> ELSE <<>>)
    \o (IF options.includeReserves /\ IsSome(additionalData.reserveAnalysis)
        THEN <<reserveAnalysisSheet(Val(additionalData.reserveAnalysis))>>
        ELSE <<>>)
    \o (IF options.includePacing /\ IsSome(additionalData.pacingAnalysis)
        THEN <<pacingAnalysisSheet(Val(additionalData.pacingAnalysis))>>
        ELSE <<>>)
    \o SheetIf(options.includeAssumptions, assumptionsSheet(fundInputs))
    \o SheetIf(options.includeWaterfall, waterfallSheet(forecastResult))

\* additionalData = undefined
NoAdditionalData == [reserveAnalysis |-> None, pacingAnalysis |-> None]

\* the options exportLPReport passes
LPReportOptions ==
    [ includeSummary     |-> TRUE,
      includeCashFlows   |-> TRUE,
      includePortfolio   |-> FALSE,
      includeReserves    |-> FALSE,
      includePacing      |-> TRUE,
      includeAssumptions |-> TRUE,
      includeWaterfall   |-> TRUE,
      lpFriendly         |-> TRUE ]

\* exportLPReport(forecastResult, fundInputs)
exportLPReport(forecastResult, fundInputs) ==
    exportFundModel(forecastResult, fundInputs, NoAdditionalData, LPReportOptions)

\* every ExcelExportOptions
ExportOptions ==
    [ includeSummary : BOOLEAN, includeCashFlows : BOOLEAN,
      includePortfolio : BOOLEAN, includeReserves : BOOLEAN,
      includePacing : BOOLEAN, includeAssumptions : BOOLEAN,
      includeWaterfall : BOOLEAN, lpFriendly : BOOLEAN ]

\* the additionalData tried: each analysis absent or present
AdditionalData ==
    [ reserveAnalysis :
          { None,
            Some(<< [ companyName |-> <<"Seed", " Company ", 1>>,
                      recommendedReserve |-> MoneyUnit ] >>) },
      pacingAnalysis :
          { None,
            Some([ totalInvested |-> 2 * MoneyUnit,
                   quarterlyDeployments |-> <<MoneyUnit, MoneyUnit>> ]) } ]

\* the forecasts handed to the consumers: an engine forecast with the first
\* quarter of the scenario's timeline
ProducedForecasts ==
    { [f EXCEPT !.timeline =
          << timelineRecord([ portfolio             |-> f.portfolio,
                              quarter               |-> 0,
                              cumulativeInvested    |-> Amount(0, 0),
                              cumulativeDistributed |-> Amount(0, 0),
                              cumulativeFees        |-> Amount(0, 0) ],
                            ScenarioInputs) >>] :
      f \in EngineForecasts }

\* nothing has been handed to postProcessForecast or to an export
ConsumerIdle ==
    consumed = [ produced   |-> None,
                 forecast   |-> None,
                 processed  |-> None,
                 exportArgs |-> None,
                 workbook   |-> None ]

\* a caller holding the forecast calls postProcessForecast(forecast, inputs):
\* the function only reads forecast
PostProcessForecast ==
    /\ IsSome(consumed.forecast)
    /\ consumed.processed = None
    /\ consumed' = [consumed EXCEPT
                        !.processed = Some(postProcessForecast(Val(consumed.forecast),
                                                               callInputs))]
    /\ UNCHANGED <<callInputs, wfVars, cohortVars, forecastVars,
                   timelineVars, formVars, appVars>>

\* a caller awaits exportFundModel(forecast, inputs, additionalData, options):
\* the sheets are built from values read off forecast, fundInputs and
\* additionalData and appended to the new workbook
ExportFundModel ==
    \E additionalData \in AdditionalData, options \in ExportOptions :
        /\ IsSome(consumed.forecast)
        /\ consumed.workbook = None
        /\ consumed' = [consumed EXCEPT
                            !.exportArgs = Some([ method |-> "exportFundModel",
                                                  additionalData |-> additionalData,
                                                  options |-> options ]),
                            !.workbook =
                                Some(exportFundModel(Val(consumed.forecast), callInputs,
                                                     additionalData, options))]
        /\ UNCHANGED <<callInputs, wfVars, cohortVars, forecastVars,
                       timelineVars, formVars, appVars>>

\* a caller awaits exportLPReport(forecast, inputs)
ExportLPReport ==
    /\ IsSome(consumed.forecast)
    /\ consumed.workbook = None
    /\ consumed' = [consumed EXCEPT
                        !.exportArgs = Some([ method |-> "exportLPReport",
                                              additionalData |-> NoAdditionalData,
                                              options |-> LPReportOptions ]),
                        !.workbook = Some(exportLPReport(Val(consumed.forecast),
                                                         callInputs))]
    /\ UNCHANGED <<callInputs, wfVars, cohortVars, forecastVars,
                   timelineVars, formVars, appVars>>

\* AllocationInput (src/unnamed/part_001).  A Percent is modelled by its
\* percentage, toPercentage() and fromPercentage() by the identity on it: the
\* class Percent (utils/MoneyTypes) is not among the sources.

\* allocations.reduce((sum, pct) => sum + pct.toPercentage(), 0)
RECURSIVE totalPercentFrom(_, _)
totalPercentFrom(allocations, k) ==
    IF k > Len(allocations)
    THEN 0
    ELSE allocations[k] + totalPercentFrom(allocations, k + 1)

\* the list handleChange(index, value) passes to onChange, index counted
\* from 1: the edited list, its last entry adjusted to make the total 100
\* when the new total is less than 1 away from 100 and the edit was not of
\* the last entry
handleChange(allocations, index, value) ==
    LET newAllocations == [allocations EXCEPT ![index] = value]
        newTotal == totalPercentFrom(newAllocations, 1)
        lastIndex == Len(allocations)
        adjustment == 100 * PctDen - newTotal + newAllocations[lastIndex]
    IN  IF /\ Abs(newTotal - 100 * PctDen) < 1 * PctDen
           /\ index < lastIndex
           /\ adjustment >= 0
           /\ adjustment <= 100 * PctDen
        THEN [newAllocations EXCEPT ![lastIndex] = adjustment]
        ELSE newAllocations

\* the allocation lists AllocationInput is first rendered with, each summing
\* to 100%
InitialAllocations ==
    { <<100 * PctDen>>,
      <<50 * PctDen, 50 * PctDen>>,
      <<30 * PctDen, 30 * PctDen, 40 * PctDen>> }

\* the values an entry is edited to: 0%, the smallest step, 30%, just under
\* 50%, 50%, just over 50%, 70%, 100%
EditedPercents ==
    {0, 1, 30 * PctDen, 50 * PctDen - 1, 50 * PctDen, 50 * PctDen + 1,
     70 * PctDen, 100 * PctDen}

\* AllocationInput is not mounted
FormIdle ==
    allocationInput = [allocations |-> <<>>, emitted |-> None]

\* the PercentInput of entry index calls handleChange(index, value): a null
\* value returns at once; otherwise the list is passed to onChange, whose
\* updateStageStrategy calls (part_000:270-274) make it the allocations of
\* the next render
HandleChange ==
    \E index \in 1..Len(allocationInput.allocations),
       value \in {None} \cup { Some(v) : v \in EditedPercents } :
        /\ IF value = None
           THEN allocationInput' = allocationInput
           ELSE LET passed == handleChange(allocationInput.allocations, index,
                                           Val(value))
                IN  allocationInput' = [ allocations |-> passed,
                                         emitted     |-> Some(passed) ]
        /\ UNCHANGED <<callInputs, wfVars, cohortVars, forecastVars,
                       timelineVars, consumerVars, appVars>>

\* ------------------------------------------------------------------------
\* AppProvider (src/src/contexts/AppContext.tsx): secure storage, saveFund,
\* loadFund, the auto-save effect, runScenarios; the FundSetup page
\* (src/unnamed/part_000)
\*
\* An await is a step boundary: an async function runs up to its await in the
\* step that calls it and the rest runs in the step where the awaited promise
\* settles.  React renders, and runs the effects whose dependencies changed,
\* in the step of the dispatch.  A function of the provider that a handler or
\* a timeout calls is the one created by the last render before the handler
\* or the timeout was set up, so it reads the state of that render.
\* ------------------------------------------------------------------------

\* most scenarios in state.scenarios; scenario ids are 1..MaxScenarios
MaxScenarios == 1

\* most saveFund calls in flight at once
MaxSaves == 1

\* exitProbabilities of the form's default strategy: fail 0.4, 1x-3x 0.3,
\* 3x-5x 0.15, 5x-10x 0.1, 10x+ 0.05
FormExitProbabilities ==
    [ fail    |-> ProbDen - (3 * ProbDen) \div 10 - (3 * ProbDen) \div 20
                    - ProbDen \div 10 - ProbDen \div 20,
      x1to3   |-> (3 * ProbDen) \div 10,
      x3to5   |-> (3 * ProbDen) \div 20,
      x5to10  |-> ProbDen \div 10,
      x10plus |-> ProbDen \div 20 ]

\* the stages of the form: the first of FUND_STAGES
FormStages == <<"Pre-Seed">>

\* the default values for a new fund: FUND_STAGES.map(stage => ...) with an
\* equal allocation; the fields no validation reads are left out
DefaultFormData ==
    [ fundName        |-> <<>>,
      fundSize        |-> 50,
      stageStrategies |->
          [ i \in 1..Len(FormStages) |->
              [ stage             |-> FormStages[i],
                allocationPercent |-> AllocDen \div Len(FormStages),
                exitProbabilities |-> FormExitProbabilities ] ] ]

\* String.prototype.trim on a string given as the sequence of its characters
RECURSIVE trim(_)
trim(str) ==
    IF str = <<>> THEN str
    ELSE IF Head(str) = " " THEN trim(Tail(str))
    ELSE IF str[Len(str)] = " " THEN trim(SubSeq(str, 1, Len(str) - 1))
    ELSE str

\* Object.values(strategy.exitProbabilities).reduce((sum, p) => sum + p, 0)
\* is more than 0.001 away from 1
formExitOff(exitProbabilities) ==
    Abs(exitProbabilities.fail + exitProbabilities.x1to3 + exitProbabilities.x3to5
        + exitProbabilities.x5to10 + exitProbabilities.x10plus - ProbDen)
            * AllocTolDen > ProbDen

\* the messages the forEach of validateForm pushes for strategies k, k+1, ...
RECURSIVE exitErrorsFrom(_, _)
exitErrorsFrom(strategies, k) ==
    IF k > Len(strategies) THEN <<>>
    ELSE (IF formExitOff(strategies[k].exitProbabilities)
          THEN << "Exit probabilities for " \o strategies[k].stage
                     \o " must sum to 100%" >>
          ELSE <<>>)
         \o exitErrorsFrom(strategies, k + 1)

\* validateForm without the fund-size test
validateForm_anySize(formData) ==
    (IF trim(formData.fundName) = <<>> THEN <<"Fund name is required">> ELSE <<>>)
    \o (IF allocationOff(formData)
        THEN <<"Stage allocations must sum to 100%">> ELSE <<>>)
    \o exitErrorsFrom(formData.stageStrategies, 1)

\* validateForm(): the errors of formData, in the order they are pushed
validateForm(formData) ==
    (IF trim(formData.fundName) = <<>> THEN <<"Fund name is required">> ELSE <<>>)
    \o (IF formData.fundSize <= 0
        THEN <<"Fund size must be greater than 0">> ELSE <<>>)
    \o (IF allocationOff(formData)
        THEN <<"Stage allocations must sum to 100%">> ELSE <<>>)
    \o exitErrorsFrom(formData.stageStrategies, 1)

\* saveFund() of the render with the given closure, called by caller, up to
\* its first await: the calls in flight after it
saveFundCalled(closure, caller, calls) ==
    IF closure.fundInputs = None
    THEN calls
    ELSE Append(calls, [ fundInputs |-> Val(closure.fundInputs),
                         scenarios  |-> closure.scenarios,
                         awaiting   |-> "fund_inputs",
                         caller     |-> caller ])

\* the FundSetup page before it is first opened
FundSetupClosed ==
    [ open      |-> FALSE,
      formData  |-> DefaultFormData,
      isSaving  |-> FALSE,
      submitted |-> None,
      toast     |-> None,
      navigated |-> None ]

\* the provider is not mounted and the FundSetup page is not open
AppIdle ==
    /\ storage = [fund_inputs |-> None, scenarios |-> None]
    /\ timer = None
    /\ saves = <<>>
    /\ load = [pc |-> "unmounted", fundInputs |-> None]
    /\ scenarioRuns = <<>>
    /\ fundSetup = FundSetupClosed
    /\ logged = {}

\* the variables that no step of the provider or of the FundSetup page writes
otherVars == <<callInputs, wfVars, cohortVars, run, calcPending, timelineVars,
               consumerVars, formVars>>

\* the i-th saveFund call in flight
SaveCall(i) == saves[i]

\* handleSave after await saveFund() resolved: toast.success, navigate, and
\* setIsSaving(false) in the finally block; the page is left, which unmounts
\* FundSetup and drops its form data
handleSaveResolved(page) ==
    [page EXCEPT !.toast = Some("Fund configuration saved"),
                 !.navigated = Some("/dashboard"),
                 !.open = FALSE,
                 !.formData = DefaultFormData,
                 !.isSaving = FALSE]

\* handleSave after await saveFund() rejected: the catch and finally blocks
handleSaveRejected(page) ==
    [page EXCEPT !.toast = Some("Failed to save fund configuration"),
                 !.isSaving = FALSE]

\* the timeout of the auto-save effect fires, 5 seconds after it was set:
\* saveFund of the render that set it is called
AutoSaveTimeout ==
    /\ IsSome(timer)
    /\ Len(saves) < MaxSaves
    /\ timer' = None
    /\ saves' = saveFundCalled(Val(timer), "autoSave", saves)
    /\ UNCHANGED <<otherVars, state, storage, load, scenarioRuns, fundSetup, logged>>

\* storage.save('fund_inputs', state.fundInputs) of a saveFund call resolves:
\* the value is stored and storage.save('scenarios', state.scenarios) is called
SaveFundInputsStored ==
    \E i \in 1..Len(saves) :
        /\ SaveCall(i).awaiting = "fund_inputs"
        /\ storage' = [storage EXCEPT !.fund_inputs = Some(SaveCall(i).fundInputs)]
        /\ saves' = [saves EXCEPT ![i].awaiting = "scenarios"]
        /\ UNCHANGED <<otherVars, state, timer, load, scenarioRuns, fundSetup, logged>>

\* storage.save('scenarios', ...) of a saveFund call resolves: the value is
\* stored, SET_LAST_SAVED is dispatched and saveFund returns, to handleSave
\* when that was the caller
SaveScenariosStored ==
    \E i \in 1..Len(saves) :
        /\ SaveCall(i).awaiting = "scenarios"
        /\ storage' = [storage EXCEPT !.scenarios = Some(SaveCall(i).scenarios)]
        /\ Dispatch([type |-> "SET_LAST_SAVED", payload |-> now])
        /\ saves' = RemoveAt(saves, i)
        /\ fundSetup' = IF SaveCall(i).caller = "handleSave"
                        THEN handleSaveResolved(fundSetup)
                        ELSE fundSetup
        /\ UNCHANGED <<otherVars, load, scenarioRuns, logged>>

\* a storage.save of a saveFund call rejects: the catch block logs and
\* rethrows, to handleSave or to .catch(console.error) of the timeout
SaveFails ==
    \E i \in 1..Len(saves) :
        /\ saves' = RemoveAt(saves, i)
        /\ logged' = logged \cup {"Failed to save fund:"}
        /\ fundSetup' = IF SaveCall(i).caller = "handleSave"
                        THEN handleSaveRejected(fundSetup)
                        ELSE fundSetup
        /\ UNCHANGED <<otherVars, state, storage, timer, load, scenarioRuns>>

\* storage.get('fund_inputs') of loadFund resolves with what is stored
LoadFundInputsRead ==
    /\ load.pc = "fund_inputs"
    /\ load' = [pc |-> "scenarios", fundInputs |-> storage.fund_inputs]
    /\ UNCHANGED <<otherVars, state, storage, timer, saves, scenarioRuns,
                   fundSetup, logged>>

\* storage.get('scenarios') of loadFund resolves with what is stored: when
\* fund inputs were read, LOAD_STATE is dispatched with them
LoadScenariosRead ==
    /\ load.pc = "scenarios"
    /\ load' = [load EXCEPT !.pc = "done"]
    /\ IF IsSome(load.fundInputs)
       THEN Dispatch([ type    |-> "LOAD_STATE",
                       payload |->
                           [ fundInputs |-> load.fundInputs,
                             scenarios  |-> IF IsSome(storage.scenarios)
                                            THEN Val(storage.scenarios) ELSE <<>>,
                             isDirty    |-> FALSE,
                             lastSaved  |-> Some(now) ] ])
       ELSE UNCHANGED <<state, timer>>
    /\ UNCHANGED <<otherVars, storage, saves, scenarioRuns, fundSetup, logged>>

\* a storage.get of loadFund rejects: the catch block logs and rethrows to
\* .catch(console.error)
LoadFails ==
    /\ load.pc \in {"fund_inputs", "scenarios"}
    /\ load' = [load EXCEPT !.pc = "threw"]
    /\ logged' = logged \cup {"Failed to load fund:"}
    /\ UNCHANGED <<otherVars, state, storage, timer, saves, scenarioRuns, fundSetup>>

\* the ids of the scenarios of a list
ScenarioIds(scenarios) == { scenarios[i].id : i \in 1..Len(scenarios) }

\* a component dispatches ADD_SCENARIO with a scenario of a new id
AddScenario ==
    \E id \in 1..MaxScenarios :
        /\ id \notin ScenarioIds(state.scenarios)
        /\ Dispatch([ type    |-> "ADD_SCENARIO",
                      payload |-> [id |-> id, name |-> "new"] ])
        /\ UNCHANGED <<otherVars, storage, saves, load, scenarioRuns, fundSetup, logged>>

\* a component dispatches UPDATE_SCENARIO to rename a scenario
UpdateScenario ==
    \E id \in ScenarioIds(state.scenarios) :
        /\ Dispatch([ type    |-> "UPDATE_SCENARIO",
                      payload |-> [id |-> id, updates |-> [name |-> "renamed"]] ])
        /\ UNCHANGED <<otherVars, storage, saves, load, scenarioRuns, fundSetup, logged>>

\* a component dispatches DELETE_SCENARIO
DeleteScenario ==
    \E id \in ScenarioIds(state.scenarios) :
        /\ Dispatch([type |-> "DELETE_SCENARIO", payload |-> id])
        /\ UNCHANGED <<otherVars, storage, saves, load, scenarioRuns, fundSetup, logged>>

\* what new ScenarioRunner(fundInputs).runScenarios(scenarios) may give
\* back: the runner is not among the sources, so a call either throws (None)
\* or returns one result for each scenario it was given
RunnerOutcomes(scenarios) ==
    { None,
      Some([ i \in 1..Len(scenarios) |-> [scenarioId |-> scenarios[i].id] ]) }

\* runScenarios up to its first await: nothing happens without fund inputs
\* or without scenarios, else SET_CALCULATING is dispatched and the rest of
\* the call is suspended with the fund inputs and scenarios of its closure
RunScenariosStart ==
    /\ IsSome(state.fundInputs)
    /\ Len(state.scenarios) # 0
    /\ Len(scenarioRuns) < MaxPending
    /\ Dispatch([type |-> "SET_CALCULATING", payload |-> TRUE])
    /\ scenarioRuns' = Append(scenarioRuns, Closure(state))
    /\ UNCHANGED <<otherVars, storage, saves, load, fundSetup, logged>>

\* runScenarios after its awaits: when the import fails or the runner throws,
\* the catch block logs, dispatches SET_CALCULATING false and rethrows; else
\* SET_SCENARIO_RESULTS and SET_CALCULATING false are dispatched
RunScenariosFinish ==
    \E i \in 1..Len(scenarioRuns), imported \in BOOLEAN :
        \E outcome \in RunnerOutcomes(scenarioRuns[i].scenarios) :
            /\ scenarioRuns' = RemoveAt(scenarioRuns, i)
            /\ IF ~imported \/ outcome = None
               THEN /\ Dispatch([type |-> "SET_CALCULATING", payload |-> FALSE])
                    /\ logged' = logged \cup {"Scenario analysis failed:"}
               ELSE /\ DispatchBoth([ type    |-> "SET_SCENARIO_RESULTS",
                                      payload |-> Val(outcome) ],
                                    [type |-> "SET_CALCULATING", payload |-> FALSE])
                    /\ UNCHANGED logged
            /\ UNCHANGED <<otherVars, storage, saves, load, fundSetup>>

\* the fund names typed: none, a blank, and a name after a blank
FundNames == { <<>>, <<" ">>, <<" ", "A">> }

\* the arguments of updateBasic tried: a fund name, or a fund size of $50M,
\* or of 0 when the MoneyInput is cleared
BasicUpdates ==
    { [fundName |-> n] : n \in FundNames } \cup { [fundSize |-> z] : z \in {0, 50} }

\* exit probabilities that sum to 0.9
ShortFormExitProbabilities ==
    [FormExitProbabilities EXCEPT !.fail = @ - ProbDen \div 10]

\* the updates of updateStageStrategy tried: an allocation of one half or of
\* the whole, or exit probabilities that sum to 1 or not
StageUpdates ==
    { [allocationPercent |-> a] : a \in {AllocDen \div 2, AllocDen} }
    \cup { [exitProbabilities |-> e] :
             e \in {FormExitProbabilities, ShortFormExitProbabilities} }

\* the page is opened (navigate('/setup')): useState initialises the form
\* from state.fundInputs, or from the defaults
OpenFundSetup ==
    /\ ~fundSetup.open
    /\ fundSetup' = [ open      |-> TRUE,
                      formData  |-> IF IsSome(state.fundInputs)
                                    THEN Val(state.fundInputs)
                                    ELSE DefaultFormData,
                      isSaving  |-> FALSE,
                      submitted |-> None,
                      toast     |-> None,
                      navigated |-> None ]
    /\ UNCHANGED <<otherVars, state, storage, timer, saves, load, scenarioRuns, logged>>

\* updateBasic(updates)
UpdateBasic ==
    \E updates \in BasicUpdates :
        /\ fundSetup.open
        /\ fundSetup' = [fundSetup EXCEPT !.formData = Spread(@, updates)]
        /\ UNCHANGED <<otherVars, state, storage, timer, saves, load,
                       scenarioRuns, logged>>

\* updateStageStrategy(index, updates), index counted from 1
UpdateStageStrategy ==
    \E index \in 1..Len(FormStages), updates \in StageUpdates :
        /\ fundSetup.open
        /\ fundSetup' = [fundSetup EXCEPT
                            !.formData.stageStrategies[index] = Spread(@, updates)]
        /\ UNCHANGED <<otherVars, state, storage, timer, saves, load,
                       scenarioRuns, logged>>

\* the Save button, disabled while isSaving, calls handleSave: on a
\* validation error it shows the first one and returns; else it dispatches
\* SET_FUND_INPUTS with the form data and awaits saveFund(), the one of the
\* render before this dispatch.  When that saveFund returns at once, the rest
\* of handleSave runs before any other task.
HandleSave ==
    /\ fundSetup.open
    /\ ~fundSetup.isSaving
    /\ LET formData == fundSetup.formData
           errors   == validateForm(formData)
           started  == [fundSetup EXCEPT !.isSaving = TRUE,
                                         !.submitted = Some(formData)]
       IN  IF Len(errors) > 0
           THEN /\ fundSetup' = [fundSetup EXCEPT !.toast = Some(errors[1])]
                /\ UNCHANGED <<state, timer, saves>>
           ELSE /\ Len(saves) < MaxSaves
                /\ Dispatch([type |-> "SET_FUND_INPUTS", payload |-> formData])
                /\ saves' = saveFundCalled(Closure(state), "handleSave", saves)
                /\ fundSetup' = IF state.fundInputs = None
                                THEN handleSaveResolved(started)
                                ELSE started
    /\ UNCHANGED <<otherVars, storage, load, scenarioRuns, logged>>

\* nothing of the later sections has run
LaterIdle ==
    /\ TimelineIdle
    /\ ConsumerIdle
    /\ FormIdle
    /\ AppIdle

\* ------------------------------------------------------------------------
\* Specifications
\* ------------------------------------------------------------------------

\* the waterfall applied to every bounded argument
InitWaterfall ==
    /\ callInputs \in WaterfallInputs
    /\ wfArgs \in WaterfallArgs
    /\ WfIdle
    /\ CohortIdle
    /\ ForecastIdle
    /\ LaterIdle

NextWaterfall == CalculateWaterfall

SpecWaterfall == InitWaterfall /\ [][NextWaterfall]_vars

\* cohort generation, called up to twice as time passes
InitCohort ==
    /\ callInputs \in CohortInputs
    /\ wfArgs = [totalDistributions |-> 0, totalInvested |-> 0]
    /\ WfIdle
    /\ CohortIdle
    /\ ForecastIdle
    /\ LaterIdle

NextCohort ==
    \/ Tick
    \/ GeneratePortfolio

SpecCohort == InitCohort /\ [][NextCohort]_vars

\* the three ways a forecast is run
InitForecast ==
    /\ callInputs \in ForecastInputs
    /\ wfArgs = [totalDistributions |-> 0, totalInvested |-> 0]
    /\ WfIdle
    /\ CohortIdle
    /\ ForecastIdle
    /\ LaterIdle

NextForecast ==
    \/ ServiceRunForecast
    \/ ModelRunForecast
    \/ SetFundInputs
    \/ CalculateForecastStart
    \/ CalculateForecastFinish

SpecForecast == InitForecast /\ [][NextForecast]_vars

\* calculateTimeline run to its end on every bounded input
InitTimeline ==
    /\ callInputs \in TimelineInputs
    /\ wfArgs = [totalDistributions |-> 0, totalInvested |-> 0]
    /\ WfIdle
    /\ CohortIdle
    /\ ForecastIdle
    /\ LaterIdle

NextTimeline ==
    \/ CalculateTimeline
    \/ TimelineQuarter
    \/ TimelineReturn

SpecTimeline == InitTimeline /\ [][NextTimeline]_vars

\* a produced forecast handed to postProcessForecast and to the exports
InitConsumers ==
    /\ callInputs \in {ScenarioInputs, [ScenarioInputs EXCEPT !.fundSize = 1]}
    /\ wfArgs = [totalDistributions |-> 0, totalInvested |-> 0]
    /\ WfIdle
    /\ CohortIdle
    /\ ForecastIdle
    /\ AppIdle
    /\ TimelineIdle
    /\ FormIdle
    /\ \E f \in ProducedForecasts :
           consumed = [ produced   |-> Some(f),
                        forecast   |-> Some(f),
                        processed  |-> None,
                        exportArgs |-> None,
                        workbook   |-> None ]

NextConsumers ==
    \/ PostProcessForecast
    \/ ExportFundModel
    \/ ExportLPReport

SpecConsumers == InitConsumers /\ [][NextConsumers]_vars

\* AllocationInput edited entry by entry
InitAllocation ==
    /\ callInputs = ScenarioInputs
    /\ wfArgs = [totalDistributions |-> 0, totalInvested |-> 0]
    /\ WfIdle
    /\ CohortIdle
    /\ ForecastIdle
    /\ AppIdle
    /\ TimelineIdle
    /\ ConsumerIdle
    /\ \E allocations \in InitialAllocations :
           allocationInput = [allocations |-> allocations, emitted |-> None]

NextAllocation == HandleChange

SpecAllocation == InitAllocation /\ [][NextAllocation]_vars

\* the stored values a session starts with: nothing, or the fund saved by an
\* earlier session with its scenarios
StoredFund == [DefaultFormData EXCEPT !.fundName = <<"S">>]

StoredChoices ==
    { [fund_inputs |-> None, scenarios |-> None],
      [fund_inputs |-> Some(StoredFund),
       scenarios   |-> Some(<< [id |-> 1, name |-> "stored"] >>)] }

\* the provider has mounted: the mount effect has called loadFund, which
\* awaits its first storage.get
AppMounted ==
    /\ storage \in StoredChoices
    /\ state = initialState
    /\ timer = None
    /\ saves = <<>>
    /\ load = [pc |-> "fund_inputs", fundInputs |-> None]
    /\ scenarioRuns = <<>>
    /\ fundSetup = FundSetupClosed
    /\ logged = {}
    /\ run = None
    /\ calcPending = <<>>

\* the rest of the model at rest
RestIdle ==
    /\ wfArgs = [totalDistributions |-> 0, totalInvested |-> 0]
    /\ WfIdle
    /\ CohortIdle
    /\ TimelineIdle
    /\ ConsumerIdle
    /\ FormIdle

\* the provider with components that dispatch fund inputs and scenario
\* changes, the mount-time load and the auto-save
InitApp ==
    /\ callInputs = [StoredFund EXCEPT !.fundName = <<"A">>]
    /\ RestIdle
    /\ AppMounted

NextApp ==
    \/ LoadFundInputsRead
    \/ LoadScenariosRead
    \/ LoadFails
    \/ SetFundInputs
    \/ AddScenario
    \/ UpdateScenario
    \/ DeleteScenario
    \/ AutoSaveTimeout
    \/ SaveFundInputsStored
    \/ SaveScenariosStored
    \/ SaveFails

SpecApp == InitApp /\ [][NextApp]_vars

\* the FundSetup page edited and saved, with the mount-time load and the
\* auto-save
InitFundSetup ==
    /\ callInputs = ScenarioInputs
    /\ RestIdle
    /\ AppMounted

NextFundSetup ==
    \/ LoadFundInputsRead
    \/ LoadScenariosRead
    \/ OpenFundSetup
    \/ UpdateBasic
    \/ UpdateStageStrategy
    \/ HandleSave
    \/ AutoSaveTimeout
    \/ SaveFundInputsStored
    \/ SaveScenariosStored
    \/ SaveFails

SpecFundSetup == InitFundSetup /\ [][NextFundSetup]_vars

\* forecasts and scenario runs started while scenarios come and go
InitScenarios ==
    /\ callInputs = [StoredFund EXCEPT !.fundName = <<"A">>]
    /\ RestIdle
    /\ AppMounted

NextScenarios ==
    \/ LoadFundInputsRead
    \/ LoadScenariosRead
    \/ AddScenario
    \/ DeleteScenario
    \/ CalculateForecastStart
    \/ CalculateForecastFinish
    \/ RunScenariosStart
    \/ RunScenariosFinish

SpecScenarios == InitScenarios /\ [][NextScenarios]_vars

\* ------------------------------------------------------------------------
\* Properties of calculateWaterfall (SpecWaterfall)
\* ------------------------------------------------------------------------

\* C1: for non-negative totals and rates in [0,1), the returned
\* WaterfallSummary has lpDistributions + gpDistributions = totalDistributions.
WaterfallConservesDistributions ==
    IsSome(waterfall) =>
        Val(waterfall).lpDistributions + Val(waterfall).gpDistributions
            = wfArgs.totalDistributions

\* C1 happens: a waterfall that went through every tier and paid both the
\* LPs and the GP
WaterfallPaidBoth ==
    /\ IsSome(waterfall)
    /\ Val(wfTiers).capitalReturn > 0
    /\ Val(waterfall).preferredReturn > 0
    /\ Val(waterfall).lpDistributions > 0
    /\ Val(waterfall).gpDistributions > 0

\* C2: whenever totalDistributions <= lpCapitalCalled
\*       + lpCapitalCalled * hurdleRate * (fundLifeYears * 0.7),
\* no carry accrues: gpDistributions = 0, carryPaid = 0 and the LPs receive
\* all of totalDistributions.
NoCarryBeforeHurdle ==
    IsSome(waterfall) =>
        LET lpCapitalCalled == Val(wfTiers).lpCapitalCalled
            hurdleMet ==
                wfArgs.totalDistributions * RateDen * PrefYearsDen
                  > lpCapitalCalled * RateDen * PrefYearsDen
                    + lpCapitalCalled * callInputs.hurdleRate
                        * callInputs.fundLifeYears * PrefYearsNum
        IN  ~hurdleMet =>
                /\ Val(waterfall).gpDistributions = 0
                /\ Val(waterfall).carryPaid = 0
                /\ Val(waterfall).lpDistributions = wfArgs.totalDistributions

\* C2 happens: distributions above the LP capital but within the preferred
\* return, with a positive carry rate
HurdleNotMetWithCarryRate ==
    /\ IsSome(waterfall)
    /\ wfArgs.totalDistributions > Val(wfTiers).lpCapitalCalled
    /\ Val(wfTiers).lpCapitalCalled > 0
    /\ Val(wfTiers).afterPreferred = 0
    /\ Val(waterfall).preferredReturn > 0
    /\ callInputs.carryRate > 0

\* C3: with GP catch-up enabled, after return of capital and preferred return
\* the GP is paid catchUpPaid until its take is carryRate of all profit
\* distributed above the return of capital: catchUpPaid is the smaller of what
\* is left and carryRate * preferredReturn / (1 - carryRate).
CatchUpPaidToGp ==
    (IsSome(waterfall) /\ callInputs.catchUp) =>
        Val(waterfall).catchUpPaid * (RateDen - callInputs.carryRate)
            = Min(Val(wfTiers).afterPreferred * (RateDen - callInputs.carryRate),
                  callInputs.carryRate * Val(waterfall).preferredReturn)

\* C4: what is left after return of capital, preferred return and catch-up
\* is split carryRate to the GP and (1 - carryRate) to the LPs.
ResidualSplitByCarryRate ==
    IsSome(waterfall) =>
        LET w == Val(waterfall)
            residual == wfArgs.totalDistributions - Val(wfTiers).capitalReturn
                            - w.preferredReturn - w.catchUpPaid
        IN  /\ w.gpDistributions * RateDen = residual * callInputs.carryRate
            /\ (w.lpDistributions - Val(wfTiers).capitalReturn - w.preferredReturn)
                   * RateDen
                 = residual * (RateDen - callInputs.carryRate)

\* C4 happens: a residual was split at a carry rate that is not one half
ResidualWasSplit ==
    /\ IsSome(waterfall)
    /\ Val(wfTiers).capitalReturn > 0
    /\ Val(waterfall).preferredReturn > 0
    /\ Val(wfTiers).afterPreferred > 0
    /\ callInputs.carryRate > 0
    /\ 2 * callInputs.carryRate # RateDen

\* C5: the tiers are paid in order, each from what the earlier ones left:
\* lpCapitalCalled = totalCapitalCalled * (1 - gpCommitment), the return of
\* capital is min(totalDistributions, lpCapitalCalled), the preferred return
\* paid is min(remainder, accrued preferred return), and once the remainder
\* is 0 every later tier pays 0.
TiersPaidInOrder ==
    IsSome(waterfall) =>
        LET t == Val(wfTiers)
            w == Val(waterfall)
            afterCapital == wfArgs.totalDistributions - t.capitalReturn
            afterPreferred == afterCapital - w.preferredReturn
        IN  /\ t.lpCapitalCalled * t.totalCapitalCalled.den * RateDen
                 = t.totalCapitalCalled.num * (RateDen - callInputs.gpCommitment)
            /\ t.capitalReturn = Min(wfArgs.totalDistributions, t.lpCapitalCalled)
            /\ w.preferredReturn * RateDen * PrefYearsDen
                 = Min(afterCapital * RateDen * PrefYearsDen,
                       t.lpCapitalCalled * callInputs.hurdleRate
                           * callInputs.fundLifeYears * PrefYearsNum)
            /\ afterCapital = 0 =>
                   /\ w.preferredReturn = 0
                   /\ w.carryPaid = 0
                   /\ w.gpDistributions = 0
                   /\ w.lpDistributions = t.capitalReturn
            /\ afterPreferred = 0 =>
                   /\ w.carryPaid = 0
                   /\ w.gpDistributions = 0
                   /\ w.lpDistributions = t.capitalReturn + w.preferredReturn

\* C5 happens: the return of capital could not be fully funded and took all
\* there was, under a positive hurdle and carry rate
CapitalTierExhaustedDistributions ==
    /\ IsSome(waterfall)
    /\ wfArgs.totalDistributions > 0
    /\ wfArgs.totalDistributions < Val(wfTiers).lpCapitalCalled
    /\ callInputs.hurdleRate > 0
    /\ callInputs.fundLifeYears > 0
    /\ callInputs.carryRate > 0

\* ------------------------------------------------------------------------
\* Properties of generatePortfolio (SpecCohort)
\* ------------------------------------------------------------------------

\* the integer nearest to the count x / CountDen, halves going up
NearestCount(x) ==
    CHOOSE n \in 0..(x + 1) :
        /\ (2 * n - 1) * CountDen <= 2 * x
        /\ 2 * x < (2 * n + 1) * CountDen

\* the companies due to the strategies before the k-th
RECURSIVE CompaniesBefore(_, _)
CompaniesBefore(strategies, k) ==
    IF k <= 1
    THEN 0
    ELSE NearestCount(strategies[k - 1].targetCompanies)
             + CompaniesBefore(strategies, k - 1)

\* the initial checks due to the strategies before the k-th
RECURSIVE ChecksBefore(_, _)
ChecksBefore(strategies, k) ==
    IF k <= 1
    THEN 0
    ELSE NearestCount(strategies[k - 1].targetCompanies) * strategies[k - 1].checkSize
             + ChecksBefore(strategies, k - 1)

\* the amounts invested in the first n companies of a portfolio
RECURSIVE InvestedIn(_, _)
InvestedIn(companies, n) ==
    IF n = 0
    THEN 0
    ELSE companies[n].investments[1].amount + InvestedIn(companies, n - 1)

\* C6: generatePortfolio creates, for each StageStrategy, exactly
\* round(targetCompanies) companies in that stage, each active, with one
\* investment (amount = checkSize, ownership = targetOwnership, valuation =
\* entryValuation) and currentValuation = entryValuation * (1 + targetOwnership);
\* the portfolio size and the invested total are the sums over the strategies
\* (10 companies and $10M in the single-Seed scenario).
CohortFollowsStrategies ==
    IsSome(portfolio) =>
        LET p  == Val(portfolio)
            ss == callInputs.stageStrategies
        IN  /\ Len(p) = CompaniesBefore(ss, Len(ss) + 1)
            /\ \A k \in 1..Len(ss) :
                 \A j \in 1..NearestCount(ss[k].targetCompanies) :
                   LET c == p[CompaniesBefore(ss, k) + j]
                   IN  /\ c.currentStage = ss[k].stage
                       /\ c.status = "active"
                       /\ Len(c.investments) = 1
                       /\ c.investments[1].amount = ss[k].checkSize
                       /\ c.investments[1].ownership = ss[k].targetOwnership
                       /\ c.investments[1].valuation = ss[k].entryValuation
                       /\ c.currentValuation * RateDen
                            = ss[k].entryValuation * (RateDen + ss[k].targetOwnership)
            /\ InvestedIn(p, Len(p)) = ChecksBefore(ss, Len(ss) + 1)
            /\ callInputs = ScenarioInputs =>
                   /\ Len(p) = 10
                   /\ InvestedIn(p, Len(p)) = 10000000

\* C6 happens: a portfolio over two strategies, the first with a fractional
\* targetCompanies, both contributing companies
TwoStageCohortGenerated ==
    /\ IsSome(portfolio)
    /\ Len(callInputs.stageStrategies) = 2
    /\ callInputs.stageStrategies[1].targetCompanies % CountDen # 0
    /\ callInputs.stageStrategies[1].stage # callInputs.stageStrategies[2].stage
    /\ Len(Val(portfolio)) >= 2
    /\ Val(portfolio)[1].currentStage # Val(portfolio)[Len(Val(portfolio))].currentStage

\* C7: two calls of generatePortfolio with identical inputs, made at any two
\* times, return portfolios identical in every field.
CohortIsDeterministic ==
    (IsSome(portfolio) /\ IsSome(prevPortfolio)) =>
        Val(portfolio) = Val(prevPortfolio)

\* some strategy has allocationPercent > 0 and a targetCompanies rounding to 0
UnderSpecified(inputs) ==
    \E k \in 1..Len(inputs.stageStrategies) :
        /\ inputs.stageStrategies[k].allocationPercent > 0
        /\ NearestCount(inputs.stageStrategies[k].targetCompanies) = 0

\* C8: when some strategy has allocationPercent > 0 and round(targetCompanies)
\* = 0, cohort generation fails with an error and produces no portfolio.
UnderSpecifiedStageFails ==
    (UnderSpecified(callInputs) /\ (IsSome(portfolio) \/ IsSome(cohortError))) =>
        /\ IsSome(cohortError)
        /\ portfolio = None

\* ------------------------------------------------------------------------
\* Properties of the forecast runs (SpecForecast)
\* ------------------------------------------------------------------------

\* a run that was rejected before the engine was built or anything simulated
RejectedBeforeSimulation(r) ==
    /\ IsSome(r.error)
    /\ ~r.engineConstructed
    /\ ~r.simulated

\* C9: on every path that runs a forecast, inputs whose allocationPercent
\* values sum to more than 1e-3 away from 1.0 are rejected with an error before
\* the cohort engine is constructed or any simulation step runs.
MisallocatedInputsRejected ==
    (IsSome(run) /\ allocationOff(Val(run).inputs)) =>
        RejectedBeforeSimulation(Val(run))

\* C10: runForecast fails, without running the simulation, whenever
\* investmentPeriodYears > fundLifeYears.
LongInvestmentPeriodRejected ==
    (/\ IsSome(run)
     /\ Val(run).path \in {"FundForecastService.runForecast",
                           "EnhancedFundModel.runForecast"}
     /\ Val(run).inputs.investmentPeriodYears > Val(run).inputs.fundLifeYears) =>
        RejectedBeforeSimulation(Val(run))

\* C11: runForecast fails with a configuration error, without running the
\* simulation, whenever the exit-probability row of any stage sums to more
\* than 1e-3 away from 1.0.
BadExitRowRejected ==
    (/\ IsSome(run)
     /\ Val(run).path \in {"FundForecastService.runForecast",
                           "EnhancedFundModel.runForecast"}
     /\ \E stage \in MatrixStages :
            exitRowOff(Val(run).inputs.exitProbabilityMatrix[stage])) =>
        RejectedBeforeSimulation(Val(run))

\* ------------------------------------------------------------------------
\* Properties of calculateTimeline (SpecTimeline)
\* ------------------------------------------------------------------------

\* the records pushed so far
Timeline == timelineCall.timeline

TimelineReturned == timelineCall.pc = "returned"

\* investmentPeriodQuarters of the call
InvestmentQuarters == callInputs.investmentPeriodYears * 4

\* a <= b, for amounts held in the same limb
AtMost(a, b) ==
    /\ ~a.nan
    /\ ~b.nan
    /\ a.mil <= b.mil
    /\ a.one <= b.one

\* amount * feeRate / 4
QuarterFeeOn(amount, feeRate) ==
    Amount((amount.mil * feeRate) \div (4 * RateDen),
           (amount.one * feeRate) \div (4 * RateDen))

\* C12: calculateTimeline terminates and returns exactly fundLifeYears * 4
\* records; the record at index i has quarter = i, so the quarters run from 0
\* to fundLifeQuarters - 1 with no gap or repeat.
TimelineHasLifeQuarters ==
    (timelineCall.pc \in {"returned", "threw"}) =>
        /\ TimelineReturned
        /\ Len(Timeline) = callInputs.fundLifeYears * 4
        /\ \A i \in 1..Len(Timeline) : Timeline[i].quarter = i - 1

\* C13: for fundSize > 0, totalInvested and totalDistributed never decrease
\* from one quarter to the next.
CumulativesNeverDecrease ==
    callInputs.fundSize > 0 =>
        \A i \in 1..(Len(Timeline) - 1) :
            /\ AtMost(Timeline[i].totalInvested, Timeline[i + 1].totalInvested)
            /\ AtMost(Timeline[i].totalDistributed, Timeline[i + 1].totalDistributed)

\* C14: the management fee of quarter q is managementFeeRate / 4 times the
\* fee basis: the committed capital (the fund size in dollars) while
\* q < investmentPeriodQuarters, the cumulative invested capital from then on.
FeeIsQuarterRateOfBasis ==
    \A i \in 1..Len(Timeline) :
        LET basis == IF Timeline[i].quarter < InvestmentQuarters
                     THEN fundSizeDollars(callInputs)
                     ELSE Timeline[i].totalInvested
        IN  Timeline[i].managementFees
                = QuarterFeeOn(basis, callInputs.managementFeeRate)

\* C15 as stated: managementFees is 0 in every record with
\* quarter >= investmentPeriodYears * 4 (quarters 20..39 of the 5-year /
\* 10-year fund).
NoFeesAfterInvestmentPeriod ==
    \A i \in 1..Len(Timeline) :
        Timeline[i].quarter >= InvestmentQuarters =>
            IsZero(Timeline[i].managementFees)

\* C15: what the code does: from quarter investmentPeriodYears * 4 on the fee
\* of a quarter is the cumulative invested capital times managementFeeRate / 4,
\* which is positive whenever the rate is positive and capital was deployed.
FeesAfterInvestmentPeriodOnInvested ==
    \A i \in 1..Len(Timeline) :
        Timeline[i].quarter >= InvestmentQuarters =>
            /\ Timeline[i].managementFees
                 = QuarterFeeOn(Timeline[i].totalInvested,
                                callInputs.managementFeeRate)
            /\ (callInputs.managementFeeRate > 0
                  /\ Positive(Timeline[i].totalInvested))
                 => Positive(Timeline[i].managementFees)

\* C15 happens: the 5-year / 10-year scenario returned its 40 quarters and
\* quarter 20 carries a fee
ScenarioChargesFeeInQuarterTwenty ==
    /\ TimelineReturned
    /\ callInputs = ScenarioInputs
    /\ Len(Timeline) = 40
    /\ Timeline[21].quarter = 20
    /\ Positive(Timeline[21].managementFees)

\* every stage's exit probabilities put weight 1.0 on failure
AllExitsFail(inputs) ==
    \A stage \in MatrixStages :
        inputs.exitProbabilityMatrix[stage] = AllFailExitRow

\* C16: when every stage's exit probabilities put weight 1.0 on the fail
\* bucket, distributions = 0 and dpi = 0 in every quarter and the total
\* distributed at the end, which is the waterfall's totalDistributions (so
\* that nothing reaches the GP), is 0.
AllFailMeansNoDistributions ==
    AllExitsFail(callInputs) =>
        \A i \in 1..Len(Timeline) :
            /\ IsZero(Timeline[i].distributions)
            /\ IsZero(Timeline[i].dpi.num)
            /\ IsZero(Timeline[i].totalDistributed)

\* C17: capitalDeployed is 0 in every quarter >= investmentPeriodQuarters and
\* non-negative in every quarter before it, so the cumulative invested
\* capital stays constant once the investment period has ended.
DeploymentStopsAfterInvestmentPeriod ==
    \A i \in 1..Len(Timeline) :
        /\ Timeline[i].quarter >= InvestmentQuarters =>
               /\ IsZero(Timeline[i].capitalDeployed)
               /\ i > 1 => Timeline[i].totalInvested = Timeline[i - 1].totalInvested
        /\ Timeline[i].quarter < InvestmentQuarters =>
               AtMost(Amount(0, 0), Timeline[i].capitalDeployed)

\* C17 happens: a returned timeline that outlasts an investment period of at
\* least two years, with a quarter deployed below the base rate
DeploymentEndedBeforeFundLife ==
    /\ TimelineReturned
    /\ InvestmentQuarters >= 8
    /\ Len(Timeline) > InvestmentQuarters
    /\ Positive(Timeline[8].capitalDeployed)
    /\ Timeline[8].capitalDeployed.mil < Timeline[1].capitalDeployed.mil
    /\ Positive(Timeline[Len(Timeline)].totalInvested)

\* C18: every record with quarter < 12 has distributions = 0, hence
\* totalDistributed = 0 and dpi = 0 through the last lock-up quarter.
NoDistributionsBeforeLockUp ==
    \A i \in 1..Len(Timeline) :
        Timeline[i].quarter < LockUpQuarters =>
            /\ IsZero(Timeline[i].distributions)
            /\ IsZero(Timeline[i].totalDistributed)
            /\ IsZero(Timeline[i].dpi.num)

\* C18 happens: a returned timeline that goes past the lock-up, with capital
\* called during it and a distribution in quarter 12
DistributionsStartAfterLockUp ==
    /\ TimelineReturned
    /\ Len(Timeline) > LockUpQuarters
    /\ Positive(Timeline[LockUpQuarters].capitalCalled)
    /\ IsZero(Timeline[LockUpQuarters].dpi.num)
    /\ Positive(Timeline[LockUpQuarters + 1].distributions)

\* ------------------------------------------------------------------------
\* Properties of the consumers of a ForecastResult (SpecConsumers)
\* ------------------------------------------------------------------------

\* the properties of a ForecastResult that C19 names
CarriedOver ==
    {"irr", "moic", "dpi", "rvpi", "tvpi", "portfolio", "timeline", "waterfall"}

\* C19: postProcessForecast, exportFundModel and exportLPReport never modify
\* the forecast they are given, its portfolio companies or its timeline
\* records, and postProcessForecast returns a new result whose irr, moic, dpi,
\* rvpi, tvpi, portfolio, timeline and waterfall are those of the input, with
\* only fundMetrics added.
ForecastConsumedReadOnly ==
    /\ consumed.forecast = consumed.produced
    /\ IsSome(consumed.processed) =>
           LET result == Val(consumed.processed)
               given  == Val(consumed.produced)
           IN  /\ DOMAIN result = DOMAIN given \cup {"fundMetrics"}
               /\ \A k \in CarriedOver : result[k] = given[k]
               /\ \A k \in DOMAIN given : result[k] = given[k]

\* C19 happens: the forecast, with companies and timeline records, went
\* through postProcessForecast and through an export that read its portfolio,
\* its timeline and its waterfall
ForecastProcessedAndExported ==
    /\ IsSome(consumed.processed)
    /\ IsSome(consumed.workbook)
    /\ Len(Val(consumed.produced).portfolio) > 0
    /\ Len(Val(consumed.produced).timeline) > 0
    /\ \E i, j, k \in 1..Len(Val(consumed.workbook)) :
          /\ Val(consumed.workbook)[i].name = "Portfolio"
          /\ Len(Val(consumed.workbook)[i].rows) > 0
          /\ Val(consumed.workbook)[j].name = "Cash Flows"
          /\ Len(Val(consumed.workbook)[j].rows) > 0
          /\ Val(consumed.workbook)[k].name = "Waterfall"

\* the sheets that list individual companies
CompanySheets == {"Portfolio", "Reserve Analysis"}

\* C28: a workbook exported with lpFriendly = true never contains a
\* per-company sheet ('Portfolio' or 'Reserve Analysis'), whatever the other
\* export options and additionalData are, and exportLPReport never emits
\* either sheet.
LpFriendlyHidesCompanySheets ==
    (IsSome(consumed.workbook) /\ Val(consumed.exportArgs).options.lpFriendly) =>
        \A i \in 1..Len(Val(consumed.workbook)) :
            Val(consumed.workbook)[i].name \notin CompanySheets

\* ------------------------------------------------------------------------
\* Properties of AllocationInput (SpecAllocation)
\* ------------------------------------------------------------------------

\* C20: for every edit of a single allocation, at any index and to any value
\* in 0..100, the list that handleChange passes to onChange sums to 100.
EmittedAllocationsSumTo100 ==
    IsSome(allocationInput.emitted) =>
        totalPercentFrom(Val(allocationInput.emitted), 1) = 100 * PctDen

\* ------------------------------------------------------------------------
\* Properties of the provider's storage and auto-save (SpecApp)
\* ------------------------------------------------------------------------

\* storage holds exactly the fund inputs and the scenarios of the state
Synced ==
    /\ storage.fund_inputs = state.fundInputs
    /\ storage.scenarios = Some(state.scenarios)

\* nothing of the provider is left to run: the mount-time load has ended, no
\* auto-save timeout is set and no saveFund call is in flight, so only a
\* further dispatch by a component can change the state or the storage
Settled ==
    /\ load.pc \in {"done", "threw"}
    /\ timer = None
    /\ saves = <<>>

\* C21: auto-save is live: after any action that marks the state dirty with
\* fundInputs non-null, if storage writes succeed and the user dispatches
\* nothing further, storage eventually holds exactly the current fundInputs
\* and scenarios, even when the change arrives while an earlier save is
\* pending or in flight.  Stated on the states where nothing is left to run:
\* there, with no storage operation having failed, storage must already
\* hold them.
AutoSaveReachesStorage ==
    (Settled /\ IsSome(state.fundInputs) /\ logged = {}) => Synced

\* scenarios || [] of what is stored under 'scenarios'
StoredScenarios ==
    IF IsSome(storage.scenarios) THEN Val(storage.scenarios) ELSE <<>>

\* C23: isDirty means unsaved changes: at every state reached after the
\* mount-time load has completed, under any interleaving of user edits with
\* pending saveFund calls, isDirty = false implies that the fund inputs and
\* scenarios last written to storage equal the current state.fundInputs and
\* state.scenarios.
CleanStateIsStored ==
    (load.pc = "done" /\ ~state.isDirty) =>
        /\ storage.fund_inputs = state.fundInputs
        /\ StoredScenarios = state.scenarios

\* the mount-time load has not completed
Loading == load.pc \in {"fund_inputs", "scenarios"}

\* C26: the mount-time loadFund never discards user changes: if
\* SET_FUND_INPUTS or a scenario action is dispatched before the asynchronous
\* load completes, the later LOAD_STATE does not overwrite those fund inputs
\* or scenarios and does not clear isDirty for them.  Stated on the step that
\* completes the load: a state that is dirty, which only such a dispatch
\* makes it, keeps its fund inputs, its scenarios and its isDirty.
LoadKeepsUserChanges ==
    [][(Loading /\ state.isDirty /\ load'.pc = "done") =>
           /\ state'.fundInputs = state.fundInputs
           /\ state'.scenarios = state.scenarios
           /\ state'.isDirty]_vars

\* ------------------------------------------------------------------------
\* Properties of scenario runs and forecasts in flight (SpecScenarios)
\* ------------------------------------------------------------------------

\* C24: after any sequence of reducer actions interleaved with runScenarios
\* calls, every entry of state.scenarioResults refers to a scenario that is
\* still in state.scenarios: DELETE_SCENARIO removes the scenario's results,
\* and results of a run that completes after a scenario was deleted do not
\* bring them back.
ResultsReferToScenarios ==
    \A i \in 1..Len(state.scenarioResults) :
        state.scenarioResults[i].scenarioId \in ScenarioIds(state.scenarios)

\* the calculateForecast and runScenarios calls that have started and not
\* yet finished
CallsInFlight == Len(calcPending) + Len(scenarioRuns)

\* C25: for every interleaving of calculateForecast and runScenarios calls,
\* overlapping and failing ones included, state.isCalculating is true exactly
\* while at least one of these calls has started and not yet finished, and is
\* false once all of them have finished.
CalculatingWhileInFlight ==
    state.isCalculating <=> (CallsInFlight > 0)

\* ------------------------------------------------------------------------
\* Properties of the FundSetup page (SpecFundSetup)
\* ------------------------------------------------------------------------

\* handleSave reports success in this step: it shows 'Fund configuration
\* saved' and navigates to /dashboard
SaveReported ==
    /\ fundSetup.open
    /\ fundSetup'.toast = Some("Fund configuration saved")
    /\ fundSetup'.navigated = Some("/dashboard")

\* C22: whenever handleSave reports success, the form data it submitted has
\* already been written to storage under 'fund_inputs', also when
\* state.fundInputs was null or different from the form data at the moment
\* handleSave was invoked.
ReportedSaveIsStored ==
    [][SaveReported => storage'.fund_inputs = fundSetup'.submitted]_vars

\* the form data have one of the errors validateForm looks for: no fund
\* name, fundSize <= 0, allocations not summing to 1 +/- 0.001, or a stage
\* whose exit probabilities do not sum to 1 +/- 0.001
HasFormError(formData) ==
    \/ trim(formData.fundName) = <<>>
    \/ formData.fundSize <= 0
    \/ allocationOff(formData)
    \/ \E k \in 1..Len(formData.stageStrategies) :
           formExitOff(formData.stageStrategies[k].exitProbabilities)

\* C27: when validateForm reports at least one error, handleSave dispatches
\* no action, writes nothing to storage and does not navigate: a click on
\* Save with such form data leaves the app state, the storage, the auto-save
\* timeout and the saveFund calls in flight as they were, keeps the page
\* open with its form data, and only shows the first error.
InvalidFormIsNotSaved ==
    [][(HandleSave /\ HasFormError(fundSetup.formData)) =>
           /\ state' = state
           /\ storage' = storage
           /\ timer' = timer
           /\ saves' = saves
           /\ fundSetup'.open
           /\ fundSetup'.navigated = None
           /\ fundSetup'.submitted = fundSetup.submitted
           /\ fundSetup'.formData = fundSetup.formData
           /\ fundSetup'.toast = Some(validateForm(fundSetup.formData)[1])]_vars

\* C27 happens: with fund inputs in the state and in storage, a click on Save
\* was refused for the last thing validateForm checks, the exit
\* probabilities of a stage
SaveRefusedForExitProbabilities ==
    /\ fundSetup.open
    /\ fundSetup.toast = Some("Exit probabilities for Pre-Seed must sum to 100%")
    /\ IsSome(state.fundInputs)
    /\ IsSome(storage.fund_inputs)
    /\ fundSetup.navigated = None

=============================================================================
